---- MODULE Spec2Model ----
(***************************************************************************)
(* Beacon: voice search over ingested PDF manuals.                         *)
(*                                                                         *)
(* Two programs are modelled.                                              *)
(*  - The voice component (src/components/BeaconRealtimeVoice.js): its     *)
(*    data-channel handlers search_document and show_page, working on the  *)
(*    `documents` / `pages` tables written by the LLM ingestion route      *)
(*    (src/app/api/extract-text/route.ts, first POST).       Spec          *)
(*  - The heuristic ingestion route (route.ts, second POST): page          *)
(*    analysis, content-start resolution, persistence.       SpecExtract   *)
(*                                                                         *)
(* Text is a tuple of one-character strings.  A missing (null, undefined,  *)
(* 0) content_starts_at_page is 0: the code only tests it for truthiness.  *)
(***************************************************************************)
EXTENDS Integers, Sequences, FiniteSets, TLC

\* ------------------------------------------------------------- bounds
MaxDocs == 2
MaxPages == 3
MaxCS == 2
MaxSent == 1
MaxSpoken == 3

\* ------------------------------------------------- program constants
ExactLimit == 3
WordLimit == 2
ScoredPerDoc == 2
PartialLimit == 2
TotalLimit == 5
ButtonLimit == 3
MinWordLen == 2
MinStem == 4
StemCut == 2

\* ------------------------------------------------------ text helpers
Min(a, b) == IF a < b THEN a ELSE b
Max(a, b) == IF a > b THEN a ELSE b

\* String.prototype.toLowerCase, per character
UpperCase ==
  << "A", "B", "C", "D", "E", "F", "G", "H", "I", "J", "K", "L", "M", "N",
     "O", "P", "Q", "R", "S", "T", "U", "V", "W", "X", "Y", "Z" >>
LowerCase ==
  << "a", "b", "c", "d", "e", "f", "g", "h", "i", "j", "k", "l", "m", "n",
     "o", "p", "q", "r", "s", "t", "u", "v", "w", "x", "y", "z" >>
UpperLetters == { UpperCase[i] : i \in 1..Len(UpperCase) }
LowerChar(c) ==
  IF c \in UpperLetters
  THEN LowerCase[CHOOSE i \in 1..Len(UpperCase) : UpperCase[i] = c]
  ELSE c

toLowerCase(s) == [i \in 1..Len(s) |-> LowerChar(s[i])]

\* String.prototype.includes
includes(s, sub) ==
  \E i \in 0..(Len(s) - Len(sub)) : SubSeq(s, i + 1, i + Len(sub)) = sub

\* Array.prototype.slice(0, n) and the store's .limit(n)
slice(s, n) == SubSeq(s, 1, Min(n, Len(s)))

\* String.prototype.substring(0, n)
substring(s, n) == SubSeq(s, 1, Min(n, Len(s)))

\* String.prototype.split(' ')
RECURSIVE split(_)
split(s) ==
  IF \A i \in 1..Len(s) : s[i] # " "
  THEN <<s>>
  ELSE LET i == CHOOSE k \in 1..Len(s) :
                  s[k] = " " /\ \A j \in 1..(k - 1) : s[j] # " "
       IN <<SubSeq(s, 1, i - 1)>> \o split(SubSeq(s, i + 1, Len(s)))

\* The store's ILIKE: "%" matches any run of characters, "_" any single
\* character, every other character itself, ignoring case.
RECURSIVE ilike(_, _)
ilike(content, pattern) ==
  IF pattern = <<>> THEN content = <<>>
  ELSE IF Head(pattern) = "%"
    THEN \E k \in 0..Len(content) :
           ilike(SubSeq(content, k + 1, Len(content)), Tail(pattern))
  ELSE IF content = <<>> THEN FALSE
  ELSE IF Head(pattern) = "_" THEN ilike(Tail(content), Tail(pattern))
  ELSE LowerChar(Head(pattern)) = LowerChar(Head(content))
       /\ ilike(Tail(content), Tail(pattern))

\* `%${term}%`
Wrap(term) == <<"%">> \o term \o <<"%">>

\* --------------------------------------------------- the input texts
TextA == <<"8", "0", "%", " ", "l", "o", "a", "d">>
TextB == <<"8", "0", " ", "a", "m", "p", " ", "L", "O", "A", "D">>
Texts == {TextA, TextB}

QLoad == <<"l", "o", "a", "d">>
QPercent == <<"8", "0", "%", " ", "l", "o", "a", "d">>
QAmpLoad == <<"a", "m", "p", " ", "l", "o", "a", "d">>
QLoadAmp == <<"l", "o", "a", "d", " ", "a", "m", "p">>
QLoads == <<"l", "o", "a", "d", "s">>
QShort == <<"z", "z">>
QNone == <<"p", "a", "n", "e", "l">>
QLoadsAmpxx == <<"l", "o", "a", "d", "s", " ", "a", "m", "p", "x", "x">>
Queries == {QLoad, QPercent, QAmpLoad, QLoadAmp, QLoads, QShort, QNone,
            QLoadsAmpxx}

\* ------------------------------------------------------------ state
VARIABLES
  allDocuments,        \* prop: rows of `documents`, newest first
  pages,               \* table `pages`
  selectedDocument,    \* useState: id of the selected document, 0 = null
  selectedDocumentRef, \* useRef mirror of selectedDocument
  currentlyLoadedDocRef, \* useRef: id of the document loaded in the viewer
  lastSearchResults,   \* useState: hits kept for the result buttons
  closure,             \* state values captured by the session's handlers
  status,              \* useState: status line
  dcSent,              \* function outputs sent on the data channel
  showTimers,          \* pending setTimeout(() => handleShowPage(..), 300)
  showCalls,           \* handleShowPage calls started by show_page
  lastSearch,          \* locals of the last search_document run
  pdfUrl,              \* useState: document whose public URL is set, 0 = null
  currentPageNumber,   \* useState: page handed to the viewer
  isPdfViewerOpen,     \* useState: the viewer is displayed
  openTimers,          \* pending setTimeout(() => setIsPdfViewerOpen(true))
  viewer,              \* state of the PDFViewer component
  navigation,          \* the last handleUserPageChange: page, status, message
  state,               \* useState: 'idle', 'connecting', 'connected', 'error'
  localStreamRef,      \* useRef: session whose microphone stream is held, 0 = null
  pcRef,               \* useRef: session whose peer connection is held, 0 = null
  dcRef,               \* useRef: session whose data channel is held, 0 = null
  sessions,            \* the startSession runs: position and created objects
  mounted,             \* the component is mounted
  autoStartTimer,      \* pending setTimeout of the autoStart effect
  lastEvent,           \* the last handler that ran
  stoppedThrough,      \* sessions started when Stop or unmount last ran stopSession
  pdfFile,             \* pages of the PDF file of the last extract-text request
  pdfRecord,           \* row inserted into `pdfs` by the last request
  pageRecords,         \* rows inserted into `pdf_pages` by the last request
  response,            \* HTTP response of the last extract-text request
  documents,           \* table `documents`
  llmCalls,            \* outcomes of the external calls of the last LLM request
  returned,            \* the library function that has returned, "" if none
  pageText,            \* extractPageNumber: argument
  foundPageNumber,     \* extractPageNumber: result
  numeral,             \* romanToArabic: argument
  arabicNum,           \* romanToArabic: result
  analysedPage,        \* analyzePage: arguments
  analysis,            \* analyzePage: result
  tocText,             \* extractTOC: argument
  tocEntries           \* extractTOC: result

viewVars == <<pdfUrl, currentPageNumber, isPdfViewerOpen, openTimers, viewer,
              navigation>>
sessVars == <<state, localStreamRef, pcRef, dcRef, sessions, mounted,
              autoStartTimer, lastEvent, stoppedThrough>>
\* the handler that runs, with the session state it finds
event(name) == [name |-> name, state |-> state, started |-> FALSE]

compVars == <<allDocuments, pages, selectedDocument, selectedDocumentRef,
              currentlyLoadedDocRef, lastSearchResults, closure, status,
              dcSent, showTimers, showCalls, lastSearch, viewVars, sessVars>>
routeVars == <<pdfFile, pdfRecord, pageRecords, response, documents, llmCalls>>
libVars == <<returned, pageText, foundPageNumber, numeral, arabicNum,
             analysedPage, analysis, tocText, tocEntries>>
vars == <<allDocuments, pages, selectedDocument, selectedDocumentRef,
          currentlyLoadedDocRef, lastSearchResults, closure, status,
          dcSent, showTimers, showCalls, lastSearch, viewVars, sessVars,
          pdfFile, pdfRecord, pageRecords, response, documents, llmCalls,
          returned, pageText, foundPageNumber, numeral, arabicNum,
          analysedPage, analysis, tocText, tocEntries>>

\* ------------------------------------------- LLM ingestion route rows
\* analyzeDocumentStructure: `result.content_starts || 1`, 1 on failure
content_starts(llm) == IF llm # 0 THEN llm ELSE 1

\* the page rows built in the batch loop
processedPages(document_id, pageTexts, starts) ==
  [i \in 1..Len(pageTexts) |->
     [document_id |-> document_id,
      pdf_page_number |-> i,
      content |-> pageTexts[i],
      is_content |-> (i >= starts)]]

\* the document row
documentRow(id, starts) ==
  [id |-> id, title |-> id, content_starts_at_page |-> starts]

\* ------------------------------------------------------ store queries
RECURSIVE SelectAnyPages(_, _, _)
\* SelectPages without the is_content filter
SelectAnyPages(document_id, pattern, n) ==
  IF n > Len(pages) THEN <<>>
  ELSE LET hit == { r \in 1..Len(pages) :
                      /\ pages[r].document_id = document_id
                      /\ pages[r].pdf_page_number = n
                      /\ ilike(pages[r].content, pattern) }
       IN (IF hit = {} THEN <<>> ELSE <<pages[CHOOSE r \in hit : TRUE]>>)
          \o SelectAnyPages(document_id, pattern, n + 1)

RECURSIVE SelectPages(_, _, _)
\* rows of one document with is_content = true whose content matches the
\* pattern, in ascending pdf_page_number from page n on
SelectPages(document_id, pattern, n) ==
  IF n > Len(pages) THEN <<>>
  ELSE LET hit == { r \in 1..Len(pages) :
                      /\ pages[r].document_id = document_id
                      /\ pages[r].pdf_page_number = n
                      /\ pages[r].is_content
                      /\ ilike(pages[r].content, pattern) }
       IN (IF hit = {} THEN <<>> ELSE <<pages[CHOOSE r \in hit : TRUE]>>)
          \o SelectPages(document_id, pattern, n + 1)

\* supabase.from('pages')...eq(document_id).eq(is_content, true)
\*   .ilike(content, pattern).order(pdf_page_number).limit(n)
QueryPages(document_id, pattern, limit) ==
  slice(SelectPages(document_id, pattern, 1), limit)

\* ------------------------------------------------ search_document
\* a store row turned into a hit: `{...r, document_title, document_filename,
\* content_offset: doc.content_starts_at_page || 1}`.  `score` is 0 where
\* the code leaves it undefined (it is only read as `score || 0`); `stage`
\* records which stage made the hit.
withDoc(r, doc, score, stage) ==
  [document_id |-> r.document_id,
   pdf_page_number |-> r.pdf_page_number,
   content |-> r.content,
   document_title |-> doc.title,
   content_offset |-> IF doc.content_starts_at_page # 0
                      THEN doc.content_starts_at_page ELSE 1,
   score |-> score,
   stage |-> stage]

mapWithDoc(rows, doc, stage) ==
  [k \in 1..Len(rows) |-> withDoc(rows[k], doc, 0, stage)]

\* Stage 1 for one document
exactResults(doc, searchQuery) ==
  QueryPages(doc.id, Wrap(searchQuery), ExactLimit)

RECURSIVE stage1(_, _, _)
\* the stage 1 loop over documentsToSearch, from document n on
stage1(docs, searchQuery, n) ==
  IF n > Len(docs) THEN <<>>
  ELSE mapWithDoc(exactResults(docs[n], searchQuery), docs[n], "exact")
       \o stage1(docs, searchQuery, n + 1)

\* searchQuery.split(' ').filter(w => w.length > 2)
wordsOf(searchQuery) ==
  SelectSeq(split(searchQuery), LAMBDA w : Len(w) > MinWordLen)

RECURSIVE wordResults(_, _, _)
\* the rows pushed by the per-word queries of one document, from word n on
wordResults(doc, words, n) ==
  IF n > Len(words) THEN <<>>
  ELSE QueryPages(doc.id, Wrap(words[n]), WordLimit)
       \o wordResults(doc, words, n + 1)

\* `words.forEach(word => { if (content.toLowerCase().includes(
\*    word.toLowerCase())) score++ })` for one pushed row
wordHits(content, words) ==
  Cardinality({ j \in 1..Len(words) :
                  includes(toLowerCase(content), toLowerCase(words[j])) })

\* pageScores: one entry per distinct page in order of first appearance;
\* every pushed row of that page adds wordHits to the score
pageScores(doc, words) ==
  LET rows == wordResults(doc, words, 1)
      first == { k \in 1..Len(rows) :
                   \A j \in 1..(k - 1) :
                      rows[j].pdf_page_number # rows[k].pdf_page_number }
      total(k) == Cardinality({ j \in 1..Len(rows) :
                     rows[j].pdf_page_number = rows[k].pdf_page_number })
                  * wordHits(rows[k].content, words)
      keep == SelectSeq([k \in 1..Len(rows) |-> k], LAMBDA k : k \in first)
  IN [i \in 1..Len(keep) |->
        withDoc(rows[keep[i]], doc, total(keep[i]), "word-based")]

RECURSIVE sortByScore(_)
\* Array.prototype.sort((a, b) => b.score - a.score): stable, descending
sortByScore(s) ==
  IF s = <<>> THEN <<>>
  ELSE LET x == s[Len(s)]
           t == sortByScore(SubSeq(s, 1, Len(s) - 1))
           k == Cardinality({ i \in 1..Len(t) : t[i].score >= x.score })
       IN SubSeq(t, 1, k) \o <<x>> \o SubSeq(t, k + 1, Len(t))

\* Stage 2 for one document
scoredResults(doc, words) ==
  slice(sortByScore(pageScores(doc, words)), ScoredPerDoc)

RECURSIVE stage2(_, _, _)
stage2(docs, words, n) ==
  IF n > Len(docs) THEN <<>>
  ELSE scoredResults(docs[n], words) \o stage2(docs, words, n + 1)

\* mainWordOf with the last of the longest words
lastLongestOf(words) ==
  words[CHOOSE i \in 1..Len(words) :
          /\ \A j \in 1..Len(words) : Len(words[j]) <= Len(words[i])
          /\ \A j \in (i + 1)..Len(words) : Len(words[j]) < Len(words[i])]

\* `.sort((a, b) => b.length - a.length)[0]`: the first longest word
mainWordOf(words) ==
  words[CHOOSE i \in 1..Len(words) :
          /\ \A j \in 1..Len(words) : Len(words[j]) <= Len(words[i])
          /\ \A j \in 1..(i - 1) : Len(words[j]) < Len(words[i])]

\* mainWord.substring(0, Math.max(4, mainWord.length - 2))
partialWordOf(mainWord) ==
  substring(mainWord, Max(MinStem, Len(mainWord) - StemCut))

RECURSIVE stage3(_, _, _)
stage3(docs, mainWord, n) ==
  IF n > Len(docs) THEN <<>>
  ELSE mapWithDoc(QueryPages(docs[n].id, Wrap(partialWordOf(mainWord)),
                             PartialLimit), docs[n], "partial")
       \o stage3(docs, mainWord, n + 1)

\* stage2Needed with stage 2 run whatever stage 1 found
stage2Always(allSearchResults) == TRUE

\* `if (allSearchResults.length === 0)` before stage 2
stage2Needed(allSearchResults) == allSearchResults = <<>>

\* `if (allSearchResults.length === 0)` before stage 3
stage3Needed(allSearchResults) == allSearchResults = <<>>

\* the three stages in order: the hits, the label (the last assignment to
\* searchMethod), the number of store queries each stage issued and the
\* word stage 3 searched for
stagesRun(docs, words, r1, r2, r3, try2, try3) ==
  [allSearchResults |-> r1 \o r2 \o r3,
   searchMethod |-> IF r3 # <<>> THEN "partial"
                    ELSE IF r2 # <<>> THEN "word-based"
                    ELSE IF r1 # <<>> THEN "exact" ELSE "",
   queries1 |-> Len(docs),
   queries2 |-> IF try2 THEN Len(docs) * Len(words) ELSE 0,
   queries3 |-> IF try3 /\ words # <<>> THEN Len(docs) ELSE 0,
   partialWord |-> IF try3 /\ words # <<>>
                   THEN partialWordOf(mainWordOf(words)) ELSE <<>>]

\* stage 3 after the hits r1 and r2 of the stages 1 and 2
fromStage3(docs, words, r1, r2, try2, try3) ==
  stagesRun(docs, words, r1, r2,
            IF try3 /\ words # <<>>
            THEN stage3(docs, mainWordOf(words), 1) ELSE <<>>,
            try2, try3)

\* stage 2 and 3 after the hits r1 of stage 1
fromStage2(docs, words, r1, r2, try2) ==
  fromStage3(docs, words, r1, r2, try2, stage3Needed(r1 \o r2))

fromStage1(docs, words, r1, try2) ==
  fromStage2(docs, words, r1,
             IF try2 /\ words # <<>> THEN stage2(docs, words, 1) ELSE <<>>,
             try2)

withStage1(docs, words, r1) == fromStage1(docs, words, r1, stage2Needed(r1))

runStages(docs, searchQuery) ==
  withStage1(docs, wordsOf(searchQuery), stage1(docs, searchQuery, 1))

\* sortAll with the hits left in the order the stages pushed them
pushOrder(allSearchResults, searchMethod) == allSearchResults

\* the global sort of the word-based stage
sortAll(allSearchResults, searchMethod) ==
  IF searchMethod = "word-based" THEN sortByScore(allSearchResults)
  ELSE allSearchResults

\* finalCut without the cut
finalUncut(allSearchResults) == allSearchResults

\* allSearchResults.slice(0, 5)
finalCut(allSearchResults) == slice(allSearchResults, TotalLimit)

\* finalResults.slice(0, 3), kept for the result buttons
buttonCut(finalResults) == slice(finalResults, ButtonLimit)

\* `offset = -(result.content_offset - 1); result.pdf_page_number + offset`
actualPageNum(result) ==
  result.pdf_page_number + (-(result.content_offset - 1))

RECURSIVE byTitle(_, _, _)
\* Object.entries(resultsByDoc): the hit indices grouped by document_title,
\* groups in order of first appearance, from group n on
byTitle(finalResults, firsts, n) ==
  IF n > Len(firsts) THEN <<>>
  ELSE SelectSeq([k \in 1..Len(finalResults) |-> k],
                 LAMBDA k : finalResults[k].document_title
                            = finalResults[firsts[n]].document_title)
       \o byTitle(finalResults, firsts, n + 1)

\* the order in which the hits appear in resultText
textOrder(finalResults, ndocs) ==
  LET idx == [k \in 1..Len(finalResults) |-> k]
      firsts == SelectSeq(idx, LAMBDA k :
                  \A j \in 1..(k - 1) : finalResults[j].document_title
                                        # finalResults[k].document_title)
  IN IF ndocs > 1 THEN byTitle(finalResults, firsts, 1) ELSE idx

\* the "Page N" lines of resultText; `hit` is the index of the line's hit
textEntries(finalResults, ndocs) ==
  LET ord == textOrder(finalResults, ndocs)
  IN [i \in 1..Len(ord) |->
        [document_title |-> finalResults[ord[i]].document_title,
         page |-> actualPageNum(finalResults[ord[i]]),
         hit |-> ord[i]]]

\* `if (searchMethod === 'word-based') resultText = "Found pages containing
\* these related terms:..."`
relatedWording(searchMethod) == searchMethod = "word-based"

docIds == { allDocuments[i].id : i \in 1..Len(allDocuments) }
docById(id) == allDocuments[CHOOSE i \in 1..Len(allDocuments) :
                              allDocuments[i].id = id]

\* getPageOffset
getPageOffset ==
  IF selectedDocument # 0
     /\ docById(selectedDocument).content_starts_at_page # 0
  THEN -(docById(selectedDocument).content_starts_at_page - 1)
  ELSE 0

\* displayPageNum with the offset of the selected document
displayPageNumSelected(result) == result.pdf_page_number + getPageOffset

\* the result buttons: `result.content_offset ? -(result.content_offset - 1)
\* : getPageOffset()`, `result.pdf_page_number + offset`
displayPageNum(result) ==
  result.pdf_page_number
  + (IF result.content_offset # 0 THEN -(result.content_offset - 1)
     ELSE getPageOffset)

NoDocsMessage == "No documents available to search"
NoDocMessage == "No document available"

\* a function_call_output item sent on the data channel
output(name, kind, message, query, ndocs, related, entries, pageNumber, doc) ==
  [name |-> name, kind |-> kind, message |-> message, query |-> query,
   ndocs |-> ndocs, related |-> related, entries |-> entries,
   pageNumber |-> pageNumber, document |-> doc]

\* noDocuments with the check left out
noDocumentsUnchecked(documentsToSearch) == FALSE

\* `if (documentsToSearch.length === 0) throw ...`
noDocuments(documentsToSearch) == Len(documentsToSearch) = 0

\* the hits are kept for the buttons, the first one is shown after the
\* delay, and the result text goes to the voice model
showResults(searchQuery, run, finalResults) ==
  LET firstResult == finalResults[1]
      found == firstResult.document_id \in docIds
  IN /\ lastSearch' = [query |-> searchQuery,
                       searchMethod |-> run.searchMethod,
                       finalResults |-> finalResults,
                       found |-> Len(run.allSearchResults),
                       queries1 |-> run.queries1,
                       queries2 |-> run.queries2,
                       queries3 |-> run.queries3,
                       partialWord |-> run.partialWord]
     /\ IF Len(finalResults) > 0
        THEN /\ lastSearchResults' = buttonCut(finalResults)
             /\ IF found
                THEN /\ IF selectedDocumentRef # firstResult.document_id
                        THEN /\ selectedDocument' = firstResult.document_id
                             /\ selectedDocumentRef' = firstResult.document_id
                        ELSE UNCHANGED <<selectedDocument,
                                         selectedDocumentRef>>
                     /\ showTimers' = Append(showTimers,
                          [pageNumber |-> firstResult.pdf_page_number,
                           targetDocument |-> firstResult.document_id])
                ELSE UNCHANGED <<selectedDocument, selectedDocumentRef,
                                 showTimers>>
             /\ dcSent' = Append(dcSent,
                  output("search_document", "results", "", searchQuery,
                         Len(allDocuments),
                         relatedWording(run.searchMethod),
                         textEntries(finalResults, Len(allDocuments)),
                         0, 0))
        ELSE /\ dcSent' = Append(dcSent,
                  output("search_document", "no-results", "",
                         searchQuery, Len(allDocuments), FALSE, <<>>,
                         0, 0))
             /\ UNCHANGED <<lastSearchResults, selectedDocument,
                            selectedDocumentRef, showTimers>>

\* the sort and the cut of the hits, then their display
searchFound(searchQuery, run) ==
  showResults(searchQuery, run,
              finalCut(sortAll(run.allSearchResults, run.searchMethod)))

\* dc.onmessage, msg.name === 'search_document'
search_document(searchQuery) ==
  /\ status' = <<"Searching for", searchQuery>>
  /\ IF noDocuments(allDocuments)
     THEN \* throw new Error('No documents available to search'), caught
       /\ dcSent' = Append(dcSent,
            output("search_document", "error", NoDocsMessage, <<>>, 0,
                   FALSE, <<>>, 0, 0))
       /\ lastSearch' = [query |-> searchQuery, searchMethod |-> "",
                         finalResults |-> <<>>, found |-> 0,
                         queries1 |-> 0, queries2 |-> 0, queries3 |-> 0,
                         partialWord |-> <<>>]
       /\ UNCHANGED <<lastSearchResults, selectedDocument,
                      selectedDocumentRef, showTimers>>
     ELSE searchFound(searchQuery, runStages(allDocuments, searchQuery))
  /\ UNCHANGED <<allDocuments, pages, currentlyLoadedDocRef, closure,
                 showCalls>>
  /\ lastEvent' = event("search_document")
  /\ UNCHANGED <<state, localStreamRef, pcRef, dcRef, sessions, mounted,
                 autoStartTimer, stoppedThrough>>
  /\ UNCHANGED <<viewVars, routeVars, libVars>>

\* a search_document call arrives on the data channel
SearchDocument(searchQuery) ==
  /\ Len(dcSent) < MaxSent
  /\ search_document(searchQuery)

\* `docToShow`: the selected document, else the first one; with search
\* results in the handler's closure the document of the first of them;
\* else the loaded document.  0 = none
docToShowOf ==
  LET sel == IF selectedDocumentRef # 0 THEN selectedDocumentRef
             ELSE IF Len(allDocuments) > 0 THEN allDocuments[1].id ELSE 0
      recent == closure.lastSearchResults
  IN IF Len(recent) > 0
     THEN (IF recent[1].document_id \in docIds
           THEN recent[1].document_id ELSE sel)
     ELSE IF sel = 0 /\ currentlyLoadedDocRef # 0
          THEN currentlyLoadedDocRef ELSE sel

\* dbPageNumber with the offset added instead of subtracted
dbPageNumberAdded(doc, pageNumber) ==
  pageNumber + (IF doc.content_starts_at_page # 0
                THEN -(doc.content_starts_at_page - 1) ELSE 0)

\* `offset = doc.content_starts_at_page ? -(doc.content_starts_at_page - 1)
\* : 0; dbPageNumber = pageNumber - offset`
dbPageNumber(doc, pageNumber) ==
  pageNumber - (IF doc.content_starts_at_page # 0
                THEN -(doc.content_starts_at_page - 1) ELSE 0)

\* dc.onmessage, msg.name === 'show_page'
show_page(pageNumber) ==
  /\ IF docToShowOf = 0
     THEN \* throw new Error('No document available'), caught
       /\ dcSent' = Append(dcSent,
            output("show_page", "error", NoDocMessage, <<>>, 0, FALSE,
                   <<>>, 0, 0))
       /\ UNCHANGED showCalls
     ELSE
       /\ showCalls' = Append(showCalls,
            [pageNumber |-> dbPageNumber(docById(docToShowOf), pageNumber),
             targetDocument |-> docToShowOf])
       /\ dcSent' = Append(dcSent,
            output("show_page", "shown", "", <<>>, 0, FALSE, <<>>,
                   pageNumber, docToShowOf))
  /\ UNCHANGED <<allDocuments, pages, selectedDocument, selectedDocumentRef,
                 currentlyLoadedDocRef, lastSearchResults, closure, status,
                 showTimers, lastSearch>>
  /\ lastEvent' = event("show_page")
  /\ UNCHANGED <<state, localStreamRef, pcRef, dcRef, sessions, mounted,
                 autoStartTimer, stoppedThrough>>
  /\ UNCHANGED <<viewVars, routeVars, libVars>>

\* a show_page call arrives on the data channel
ShowPage(pageNumber) ==
  /\ Len(dcSent) < MaxSent
  /\ show_page(pageNumber)

\* ------------------------------------------ heuristic ingestion route
MaxRawPages == 3

\* SECTION_PATTERNS.title.maxPages / maxChars and the thresholds of
\* analyzePage
TitleMaxPages == 3
TitleMaxChars == 800
BlankChars == 50
FirstPageChars == 300
TitleWeight == 20
PrefaceWeight == 35
PrefaceBonus == 10
PrefacePages == 10
LongChars == 1000
LongBonus == 20
SubstantialChars == 500
SubstantialBonus == 10
ScoreFloor == 30
DefaultMainConfidence == 40
TocWeight == 15
MinPageRefs == 5
PageRefsBonus == 25
LeadersBonus == 20
MultipleRefsBonus == 15
NumberLines == 5
NumberLinesBonus == 20
MainWeight == 15
TechWeight == 2
TechCap == 30
NumberedBonus == 15

\* A page as the text extraction delivers it, seen through the regular
\* expressions of the route: `chars` is the length of the trimmed text,
\* `found` what extractPageNumber returns for it, the other fields how its
\* text fares against the signature patterns.
NoNumber == [type |-> "none", value |-> "", arabic |-> 0]
Roman(value, n) == [type |-> "roman", value |-> value, arabic |-> n]
Arabic(n) == [type |-> "arabic", value |-> "", arabic |-> n]

rawPage(chars, found, titleHits, tocScore, prefaceHit, mainBase) ==
  [chars |-> chars, found |-> found, titleHits |-> titleHits,
   tocScore |-> tocScore, prefaceHit |-> prefaceHit, mainBase |-> mainBase]

\* tocScore: 15 for every toc pattern that matches, the bonuses for page
\* references, dotted leaders, "page N" references and lines ending with
\* a number
tocScoreOf(tocHits, pageRefs, hasDottedLeaders, hasMultiplePageRefs, linesEndingWithNumbers) ==
  tocHits * TocWeight
  + (IF pageRefs >= MinPageRefs THEN PageRefsBonus ELSE 0)
  + (IF hasDottedLeaders THEN LeadersBonus ELSE 0)
  + (IF hasMultiplePageRefs THEN MultipleRefsBonus ELSE 0)
  + (IF linesEndingWithNumbers >= NumberLines THEN NumberLinesBonus ELSE 0)

\* mainScore without the length bonus: 15 for every mainContent pattern
\* that matches, the capped bonus for technical terms, the bonus for
\* numbered sections
mainBaseOf(mainHits, techMatches, numberedSections) ==
  mainHits * MainWeight
  + Min(techMatches * TechWeight, TechCap)
  + (IF numberedSections THEN NumberedBonus ELSE 0)

PEmpty == rawPage(0, NoNumber, 0, 0, FALSE, 0)
PShortOne == rawPage(40, Arabic(1), 1, 0, FALSE, 0)
PTitle == rawPage(200, NoNumber, 2, 0, FALSE, 0)
PRoman == rawPage(600, Roman("iii", 3), 0, 0, TRUE, 0)
PRomanI == rawPage(600, Roman("i", 1), 0, 0, TRUE, 0)
POne == rawPage(1200, Arabic(1), 0, 0, FALSE, 30)
PSeven == rawPage(1200, Arabic(7), 0, 0, FALSE, 30)
PMain == rawPage(1200, NoNumber, 0, 0, FALSE, 30)
PPlain == rawPage(600, NoNumber, 0, 0, FALSE, 0)
\* "Table of Contents Chapter 1 General .... 5 Section 2 Wiring .... 12
\*  Chapter 3 Safety .... 20 Appendix A .... 31": five toc patterns, seven
\* page references, dotted leaders, one line; "safety" and "wiring"
PContents ==
  rawPage(111, NoNumber, 0, tocScoreOf(5, 7, TRUE, FALSE, 1), FALSE,
          mainBaseOf(2, 0, FALSE))
\* "Contents .... 5": a short page with toc signatures
PShortToc ==
  rawPage(15, NoNumber, 0, tocScoreOf(1, 1, TRUE, FALSE, 1), FALSE, 0)
\* a long page of numbered sections with many technical terms
PDense == rawPage(1200, Arabic(7), 0, 0, FALSE, mainBaseOf(3, 20, TRUE))
\* a preface that announces its purpose and scope in technical terms
PPreface ==
  rawPage(600, Roman("iii", 3), 0, 0, TRUE, mainBaseOf(1, 10, FALSE))
\* a page that lists contents, states its scope and opens a section: on
\* an early page its toc, preface and main scores are equal
PTie ==
  rawPage(600, NoNumber, 0, tocScoreOf(3, 0, FALSE, FALSE, 0), TRUE,
          mainBaseOf(1, 10, FALSE))
\* a short cover that also lists contents: as page 1 its title and toc
\* scores are equal
PTitleTie ==
  rawPage(200, NoNumber, 2, tocScoreOf(4, 0, FALSE, FALSE, 0), FALSE, 0)

RawPages == {PEmpty, PShortOne, PTitle, PRoman, PRomanI, POne, PSeven,
             PMain, PPlain}

\* scenario A of the specification: two title pages, "iii" and "iv" on
\* preface pages, printed "1" on physical page 5, then 2, 3, ...
ScenarioA ==
  [i \in 1..12 |->
     IF i <= 2 THEN PTitle
     ELSE IF i = 3 THEN PRoman
     ELSE IF i = 4 THEN rawPage(600, Roman("iv", 4), 0, 0, TRUE, 0)
     ELSE rawPage(1200, Arabic(i - 4), 0, 0, FALSE, 30)]

\* bestType with the last type of the order among equal maxima
lastBestType(scores, hasTitle) ==
  LET order == IF hasTitle THEN <<"title", "toc", "preface", "main">>
               ELSE <<"toc", "preface", "main">>
      maxScore == CHOOSE m \in { scores[order[i]] : i \in 1..Len(order) } :
                    \A i \in 1..Len(order) : scores[order[i]] <= m
      last == CHOOSE i \in 1..Len(order) :
                /\ scores[order[i]] = maxScore
                /\ \A j \in (i + 1)..Len(order) : scores[order[j]] # maxScore
  IN [type |-> order[last], score |-> maxScore]

\* the first type, in the order title, toc, preface, main, whose score is
\* the maximum
bestType(scores, hasTitle) ==
  LET order == IF hasTitle THEN <<"title", "toc", "preface", "main">>
               ELSE <<"toc", "preface", "main">>
      maxScore == CHOOSE m \in { scores[order[i]] : i \in 1..Len(order) } :
                    \A i \in 1..Len(order) : scores[order[i]] <= m
      first == CHOOSE i \in 1..Len(order) :
                 /\ scores[order[i]] = maxScore
                 /\ \A j \in 1..(i - 1) : scores[order[j]] # maxScore
  IN [type |-> order[first], score |-> maxScore]

\* isBlank with the short-circuit left out
isBlankNever(page) == FALSE

\* `pageText.trim().length < 50`
isBlank(page) == page.chars < BlankChars

\* `scores.title` is set: the page is one of the first and short
titleScored(page, pageNumber) ==
  pageNumber <= TitleMaxPages /\ page.chars < TitleMaxChars

\* the `scores` object; `title` is read only when titleScored
scoresOf(page, pageNumber) ==
  [title |-> page.titleHits * TitleWeight
             + (IF pageNumber = 1 /\ page.chars < FirstPageChars
                THEN TitleWeight ELSE 0),
   toc |-> page.tocScore,
   preface |-> IF page.prefaceHit
               THEN PrefaceWeight
                    + (IF pageNumber <= PrefacePages
                       THEN PrefaceBonus ELSE 0)
               ELSE 0,
   main |-> page.mainBase
            + (IF page.chars > LongChars THEN LongBonus
               ELSE IF page.chars > SubstantialChars
                    THEN SubstantialBonus ELSE 0)]

\* analyzePage(pageText, pageNumber)
analyzePage(page, pageNumber) ==
  LET blank == isBlank(page)
      best == bestType(scoresOf(page, pageNumber),
                       titleScored(page, pageNumber))
      scored == best.score >= ScoreFloor
      defaulted == ~scored /\ pageNumber > PrefacePages
                   /\ page.chars > SubstantialChars
      type == IF blank THEN "blank"
              ELSE IF scored THEN best.type
              ELSE IF defaulted THEN "main" ELSE "unknown"
      numbered == ~blank /\ page.found.type # "none"
  IN [pageNumber |-> pageNumber,
      type |-> type,
      confidence |-> IF blank THEN 0
                     ELSE IF scored THEN best.score
                     ELSE IF defaulted THEN DefaultMainConfidence ELSE 0,
      isMainContent |-> type = "main",
      hasPageNumber |-> numbered,
      \* 0 stands for null; a Roman number is stored negated
      actualPageNumber |-> IF ~numbered THEN 0
                           ELSE IF page.found.type = "roman"
                                THEN -page.found.arabic
                                ELSE page.found.arabic,
      pageNumberType |-> IF numbered THEN page.found.type ELSE "none",
      romanNumeral |-> IF numbered /\ page.found.type = "roman"
                       THEN page.found.value ELSE "",
      charCount |-> page.chars]

\* `pdfData.text.split('\f').filter(p => p.trim())` and the analysis of
\* each remaining page under its index + 1
pageTextsOf(raw) ==
  LET kept == SelectSeq(raw, LAMBDA p : p.chars > 0)
  IN [i \in 1..Len(kept) |-> analyzePage(kept[i], i)]

\* Method 1: the first page marked Arabic "1" (0: none)
pageOne(pageTexts) ==
  LET ones == { i \in 1..Len(pageTexts) :
                  pageTexts[i].actualPageNumber = 1
                  /\ pageTexts[i].pageNumberType = "arabic" }
  IN IF ones = {} THEN 0
     ELSE CHOOSE i \in ones : \A j \in ones : i <= j

\* Method 2, the loop: the last Roman index
lastRoman(pageTexts) ==
  LET rs == { i \in 1..Len(pageTexts) :
                pageTexts[i].pageNumberType = "roman" }
  IN IF rs = {} THEN 0 ELSE CHOOSE i \in rs : \A j \in rs : j <= i

\* Method 2, the loop: `else if (type === 'arabic' && firstArabic === -1)`
firstArabic(pageTexts) ==
  LET as == { i \in 1..Len(pageTexts) :
                pageTexts[i].pageNumberType = "arabic" }
  IN IF as = {} THEN 0 ELSE CHOOSE i \in as : \A j \in as : i <= j

\* Method 3: the first main content page (0: none)
firstMainPage(pageTexts) ==
  LET ms == { i \in 1..Len(pageTexts) : pageTexts[i].isMainContent }
  IN IF ms = {} THEN 0 ELSE CHOOSE i \in ms : \A j \in ms : i <= j

\* firstSubstantial without the exclusion of the front matter types
firstLongPage(pageTexts) ==
  LET ss == { i \in 1..Len(pageTexts) :
                pageTexts[i].charCount > SubstantialChars }
  IN IF ss = {} THEN 0 ELSE CHOOSE i \in ss : \A j \in ss : i <= j

\* Method 4: the first page that is no front matter and has > 500 chars
firstSubstantial(pageTexts) ==
  LET ss == { i \in 1..Len(pageTexts) :
                /\ pageTexts[i].type \notin {"title", "toc", "preface", "blank"}
                /\ pageTexts[i].charCount > SubstantialChars }
  IN IF ss = {} THEN 0 ELSE CHOOSE i \in ss : \A j \in ss : i <= j

\* contentStartsAt with the first main content page tried first
contentStartsAtMainFirst(pageTexts) ==
  IF firstMainPage(pageTexts) # 0
  THEN pageTexts[firstMainPage(pageTexts)].pageNumber
  ELSE IF pageOne(pageTexts) # 0
  THEN pageTexts[pageOne(pageTexts)].pageNumber
  ELSE IF lastRoman(pageTexts) >= 1
          /\ firstArabic(pageTexts) > lastRoman(pageTexts)
  THEN pageTexts[firstArabic(pageTexts)].pageNumber
  ELSE IF firstSubstantial(pageTexts) # 0
  THEN pageTexts[firstSubstantial(pageTexts)].pageNumber
  ELSE 1

\* "Find where main content starts"
contentStartsAt(pageTexts) ==
  IF pageOne(pageTexts) # 0
  THEN pageTexts[pageOne(pageTexts)].pageNumber
  ELSE IF lastRoman(pageTexts) >= 1
          /\ firstArabic(pageTexts) > lastRoman(pageTexts)
  THEN pageTexts[firstArabic(pageTexts)].pageNumber
  ELSE IF firstMainPage(pageTexts) # 0
  THEN pageTexts[firstMainPage(pageTexts)].pageNumber
  ELSE IF firstSubstantial(pageTexts) # 0
  THEN pageTexts[firstSubstantial(pageTexts)].pageNumber
  ELSE 1

\* metadata.page_mapping
page_mapping(pageTexts) ==
  LET numbered == SelectSeq(pageTexts, LAMBDA p : p.hasPageNumber)
  IN [i \in 1..Len(numbered) |->
        [physical |-> numbered[i].pageNumber,
         \* the Roman numeral is in `roman`, its negated value in `printed`
         printed |-> numbered[i].actualPageNumber,
         roman |-> numbered[i].romanNumeral,
         type |-> numbered[i].pageNumberType]]

\* the row inserted into `pdfs`
pdfRow(raw, pageTexts) ==
  [total_pages |-> Len(raw),
   content_starts_at |-> contentStartsAt(pageTexts),
   page_mapping |-> page_mapping(pageTexts)]

\* the rows inserted into `pdf_pages`
pageRows(pageTexts) ==
  [i \in 1..Len(pageTexts) |->
     [page_number |-> pageTexts[i].pageNumber,
      page_type |-> pageTexts[i].type,
      is_main_content |-> pageTexts[i].isMainContent,
      char_count |-> pageTexts[i].charCount,
      actual_page_number |-> pageTexts[i].actualPageNumber]]

NoRecord == [total_pages |-> 0, content_starts_at |-> 0, page_mapping |-> <<>>]

Failures == {"none", "download", "pdfs", "pdf_pages"}

\* POST of the heuristic route: download and parse, analyse, resolve the
\* content start, insert the document row, then the page rows.  `fail`
\* is the step of the request that fails, `raw` the pages of the file in
\* the storage bucket.  A behaviour follows one
\* request: requests share nothing but the tables, and a request only
\* inserts rows of its own.
ExtractText(raw, fail) ==
  /\ response = "none"
  /\ pdfFile' = raw
  /\ IF fail = "download"
     THEN /\ pdfRecord' = NoRecord
          /\ pageRecords' = <<>>
          /\ response' = "error"
     ELSE IF fail = "pdfs"
     THEN /\ pdfRecord' = NoRecord
          /\ pageRecords' = <<>>
          /\ response' = "error"
     ELSE IF fail = "pdf_pages"
     THEN /\ pdfRecord' = pdfRow(raw, pageTextsOf(raw))
          /\ pageRecords' = <<>>
          /\ response' = "error"
     ELSE /\ pdfRecord' = pdfRow(raw, pageTextsOf(raw))
          /\ pageRecords' = pageRows(pageTextsOf(raw))
          /\ response' = "ok"
  /\ UNCHANGED <<compVars, documents, llmCalls, libVars>>

\* getPageOffset of the single-PDF voice component
getPdfPageOffset(selectedPdf) ==
  IF selectedPdf.content_starts_at # 0
  THEN -(selectedPdf.content_starts_at - 1) ELSE 0

\* `actualPageNum = result.page_number + offset` of the same component
pdfActualPageNum(selectedPdf, page_number) ==
  page_number + getPdfPageOffset(selectedPdf)

\* ------------------------------------------------ page number detector
\* bound on the number of lines of a page text
MaxLines == 2
\* bound on the length of a numeral handed to romanToArabic
MaxNumeralLen == 4

\* `roman.length <= 4`, `arabicNum <= 30`, `pageNum < 2000`
RomanMaxLen == 4
RomanMax == 30
ArabicLimit == 2000

\* null, where the code returns a number otherwise
Null == -1

\* the character classes of the patterns: [ivxlcdm] under /i, \s, \d,
\* [-] (the text extraction delivers the ASCII hyphen)
RomanLetters == {"i", "v", "x", "l", "c", "d", "m"}
RomanClass == RomanLetters \cup {"I", "V", "X", "L", "C", "D", "M"}
Spaces == {" ", "\n", "\t"}
Digits == {"0", "1", "2", "3", "4", "5", "6", "7", "8", "9"}
IsRomanLetter(c) == LowerChar(c) \in RomanLetters
IsSpace(c) == c \in Spaces
IsDigit(c) == c \in Digits
IsDash(c) == c = "-"

\* the character at position p, "" outside the text
charAt(t, p) == IF p >= 1 /\ p <= Len(t) THEN t[p] ELSE ""

\* the end of the longest run of characters of a class that starts at p
\* (p - 1 when the character at p is not of the class)
runEnd(t, p, class) ==
  LET stops == { q \in p..Len(t) : t[q] \notin class }
  IN IF stops = {} THEN Max(Len(t), p - 1)
     ELSE (CHOOSE q \in stops : \A r \in stops : q <= r) - 1

\* [\s]* taken greedily from p: the first position that is not white space
skipWs(t, p) == runEnd(t, p, Spaces) + 1

\* `$` under /m: the end of the text or the position before a newline
atEol(t, p) == p = Len(t) + 1 \/ charAt(t, p) = "\n"

\* `^` under /m: the start of the text or the position after a newline
atBol(t, p) == p = 1 \/ charAt(t, p - 1) = "\n"

\* [\s]*$ matches from p
wsThenEol(t, p) == \E q \in p..(skipWs(t, p)) : atEol(t, q)

\* [\s]*\n matches from p
wsThenNl(t, p) == \E q \in p..(skipWs(t, p) - 1) : t[q] = "\n"

\* a literal matches at p, ignoring case; the position after it, else 0
literalEnd(t, p, lit) ==
  IF p + Len(lit) - 1 <= Len(t)
     /\ \A i \in 1..Len(lit) : LowerChar(t[p + i - 1]) = LowerChar(lit[i])
  THEN p + Len(lit) ELSE 0

\* (?:Page|Pg\.?|P\.?) at p followed by \s*: the positions at which the
\* rest of the pattern may start, in the order the alternatives are tried
pagePrefixEnds(t, p) ==
  LET alts == << <<"P", "a", "g", "e">>, <<"P", "g", ".">>, <<"P", "g">>,
                 <<"P", ".">>, <<"P">> >>
      ends == [i \in 1..Len(alts) |-> literalEnd(t, p, alts[i])]
  IN SelectSeq(ends, LAMBDA e : e # 0)

\* String.prototype.match for a pattern without /g: the capture of the
\* leftmost match, <<>> when nothing matches.  captures[k] is the capture
\* of the match that starts at k, <<>> when none starts there.
firstMatch(captures) ==
  LET ks == { k \in 1..Len(captures) : captures[k] # <<>> }
  IN IF ks = {} THEN <<>>
     ELSE captures[CHOOSE k \in ks : \A j \in ks : k <= j]

\* \n[\s]*(CLASS+)[\s]*$ starting at k
bareAtBottom(t, k, class) ==
  LET j == skipWs(t, k + 1)
      e == runEnd(t, j, class)
  IN IF t[k] = "\n" /\ e >= j /\ wsThenEol(t, e + 1)
     THEN SubSeq(t, j, e) ELSE <<>>

\* ^[\s]*(CLASS+)[\s]*\n starting at k
bareAtTop(t, k, class) ==
  LET j == skipWs(t, k)
      e == runEnd(t, j, class)
  IN IF atBol(t, k) /\ e >= j /\ wsThenNl(t, e + 1)
     THEN SubSeq(t, j, e) ELSE <<>>

\* [-]\s*(CLASS+)\s*[-] from j on: the capture and the position after it
dashed(t, j, class) ==
  LET a == skipWs(t, j + 1)
      e == runEnd(t, a, class)
      z == skipWs(t, e + 1)
  IN IF IsDash(charAt(t, j)) /\ e >= a /\ IsDash(charAt(t, z))
     THEN [capture |-> SubSeq(t, a, e), next |-> z + 1]
     ELSE [capture |-> <<>>, next |-> 0]

\* \n[\s]*[-]\s*(CLASS+)\s*[-][\s]*$ starting at k
dashedAtBottom(t, k, class) ==
  LET d == dashed(t, skipWs(t, k + 1), class)
  IN IF t[k] = "\n" /\ d.capture # <<>> /\ wsThenEol(t, d.next)
     THEN d.capture ELSE <<>>

\* ^[\s]*[-]\s*(CLASS+)\s*[-][\s]*\n starting at k
dashedAtTop(t, k, class) ==
  LET d == dashed(t, skipWs(t, k), class)
  IN IF atBol(t, k) /\ d.capture # <<>> /\ wsThenNl(t, d.next)
     THEN d.capture ELSE <<>>

\* (?:Page|Pg\.?|P\.?)\s*([ivxlcdm]+) starting at k
pageRomanAt(t, k) ==
  LET ends == pagePrefixEnds(t, k)
      cap(e) == LET j == skipWs(t, e)
                IN SubSeq(t, j, runEnd(t, j, RomanClass))
      ok == SelectSeq(ends, LAMBDA e : cap(e) # <<>>)
  IN IF ok = <<>> THEN <<>> ELSE cap(ok[1])

\* romanPatterns, each applied with pageText.match
romanMatches(t) ==
  << firstMatch([k \in 1..Len(t) |-> bareAtBottom(t, k, RomanClass)]),
     firstMatch([k \in 1..Len(t) |-> bareAtTop(t, k, RomanClass)]),
     firstMatch([k \in 1..Len(t) |-> dashedAtBottom(t, k, RomanClass)]),
     firstMatch([k \in 1..Len(t) |-> pageRomanAt(t, k)]) >>

\* romanNumerals
romanNumerals ==
  ("i" :> 1) @@ ("v" :> 5) @@ ("x" :> 10) @@ ("l" :> 50) @@ ("c" :> 100)
  @@ ("d" :> 500) @@ ("m" :> 1000)

\* the loop of romanToArabic from index i down, with result and prevValue
RECURSIVE romanLoop(_, _, _, _)
romanLoop(roman, i, result, prevValue) ==
  IF i < 1 THEN result
  ELSE IF LowerChar(roman[i]) \notin DOMAIN romanNumerals THEN Null
  ELSE LET currentValue == romanNumerals[LowerChar(roman[i])]
       IN romanLoop(roman, i - 1,
                    IF currentValue < prevValue
                    THEN result - currentValue ELSE result + currentValue,
                    currentValue)

\* romanToArabic
romanToArabic(roman) == romanLoop(roman, Len(roman), 0, 0)

\* /^[ivx]+$/.test(roman) && roman.length <= 4
plausibleRoman(roman) ==
  /\ roman # <<>>
  /\ \A i \in 1..Len(roman) : roman[i] \in {"i", "v", "x"}
  /\ Len(roman) <= RomanMaxLen

\* the validation of the Roman loop over the captures of the patterns: the
\* first capture that passes it
validRoman(ms) ==
  LET good(i) == /\ ms[i] # <<>>
                 /\ plausibleRoman(toLowerCase(ms[i]))
                 /\ romanToArabic(toLowerCase(ms[i])) \notin {Null, 0}
                 /\ romanToArabic(toLowerCase(ms[i])) <= RomanMax
      is == { i \in 1..Len(ms) : good(i) }
  IN IF is = {} THEN NoNumber
     ELSE LET i == CHOOSE n \in is : \A m \in is : n <= m
          IN [type |-> "roman", value |-> toLowerCase(ms[i]),
              arabic |-> romanToArabic(toLowerCase(ms[i]))]

\* the result of the Roman loop of extractPageNumber
romanFound(t) == validRoman(romanMatches(t))

\* parseInt of a run of digits
RECURSIVE parseInt(_)
parseInt(ds) ==
  IF ds = <<>> THEN 0
  ELSE parseInt(SubSeq(ds, 1, Len(ds) - 1)) * 10
       + (CHOOSE n \in 0..9 : ToString(n) = ds[Len(ds)])

\* Page\s+(\d+) from j on: the capture and the position after it
pageDigits(t, j) ==
  LET p == literalEnd(t, j, <<"P", "a", "g", "e">>)
      a == skipWs(t, p)
      e == runEnd(t, a, Digits)
  IN IF p # 0 /\ a > p /\ e >= a
     THEN [capture |-> SubSeq(t, a, e), next |-> e + 1]
     ELSE [capture |-> <<>>, next |-> 0]

\* open (\d+) close from j on, for [ ] and ( )
bracketed(t, j, open, close) ==
  LET e == runEnd(t, j + 1, Digits)
  IN IF charAt(t, j) = open /\ e >= j + 1 /\ charAt(t, e + 1) = close
     THEN [capture |-> SubSeq(t, j + 1, e), next |-> e + 2]
     ELSE [capture |-> <<>>, next |-> 0]

\* \n[\s]* X [\s]*$ starting at k; x is the capture and the end of X
\* matched from the first position after the white space
atBottom(t, k, x) ==
  IF t[k] = "\n" /\ x.capture # <<>> /\ wsThenEol(t, x.next)
  THEN x.capture ELSE <<>>

\* ^[\s]* X [\s]*\n starting at k
atTop(t, k, x) ==
  IF atBol(t, k) /\ x.capture # <<>> /\ wsThenNl(t, x.next)
  THEN x.capture ELSE <<>>

\* (?:Page|Pg\.?|P\.?)\s*(\d+)\s*(?:of|\/) starting at k
pageOfAt(t, k) ==
  LET ends == pagePrefixEnds(t, k)
      last(e) == runEnd(t, skipWs(t, e), Digits)
      follows(e) == LET z == skipWs(t, last(e) + 1)
                    IN \/ literalEnd(t, z, <<"o", "f">>) # 0
                       \/ charAt(t, z) = "/"
      ok == SelectSeq(ends, LAMBDA e : last(e) >= skipWs(t, e) /\ follows(e))
  IN IF ok = <<>> THEN <<>> ELSE SubSeq(t, skipWs(t, ok[1]), last(ok[1]))

\* \d{4}.*?[-]\s*(\d+)\s*$ starting at k
yearDashAt(t, k) ==
  LET cap(h) == LET a == skipWs(t, h + 1)
                    e == runEnd(t, a, Digits)
                IN IF e >= a /\ wsThenEol(t, e + 1)
                   THEN SubSeq(t, a, e) ELSE <<>>
      hs == { h \in (k + 4)..Len(t) :
                /\ IsDash(t[h])
                /\ \A i \in (k + 4)..(h - 1) : t[i] # "\n"
                /\ cap(h) # <<>> }
  IN IF k + 3 <= Len(t) /\ runEnd(t, k, Digits) >= k + 3 /\ hs # {}
     THEN cap(CHOOSE h \in hs : \A g \in hs : h <= g)
     ELSE <<>>

\* patterns, each applied with pageText.match
arabicMatches(t) ==
  << firstMatch([k \in 1..Len(t) |-> bareAtBottom(t, k, Digits)]),
     firstMatch([k \in 1..Len(t) |-> dashedAtBottom(t, k, Digits)]),
     firstMatch([k \in 1..Len(t) |->
                   atBottom(t, k, pageDigits(t, skipWs(t, k + 1)))]),
     firstMatch([k \in 1..Len(t) |->
                   atBottom(t, k, bracketed(t, skipWs(t, k + 1), "[", "]"))]),
     firstMatch([k \in 1..Len(t) |->
                   atBottom(t, k, bracketed(t, skipWs(t, k + 1), "(", ")"))]),
     firstMatch([k \in 1..Len(t) |-> bareAtTop(t, k, Digits)]),
     firstMatch([k \in 1..Len(t) |->
                   atTop(t, k, pageDigits(t, skipWs(t, k)))]),
     firstMatch([k \in 1..Len(t) |-> dashedAtTop(t, k, Digits)]),
     firstMatch([k \in 1..Len(t) |-> pageOfAt(t, k)]),
     firstMatch([k \in 1..Len(t) |-> yearDashAt(t, k)]) >>

\* the validation of the Arabic loop over the captures of the patterns
validArabic(ms) ==
  LET is == { i \in 1..Len(ms) :
                /\ ms[i] # <<>>
                /\ parseInt(ms[i]) > 0
                /\ parseInt(ms[i]) < ArabicLimit }
  IN IF is = {} THEN NoNumber
     ELSE LET i == CHOOSE n \in is : \A m \in is : n <= m
          IN [type |-> "arabic", value |-> ms[i], arabic |-> parseInt(ms[i])]

\* the result of the Arabic loop of extractPageNumber
arabicFound(t) == validArabic(arabicMatches(t))

\* the Roman loop runs first; the Arabic loop runs when it returned nothing
romanThenArabic(roman, arabic) ==
  IF roman.type # "none" THEN roman ELSE arabic

\* extractPageNumber(pageText); NoNumber is null
extractPageNumber(t) == romanThenArabic(romanFound(t), arabicFound(t))

\* the lines the page texts are made of
LineIv == <<"i", "v">>
LineXxxi == <<"x", "x", "x", "i">>
LineXxxx == <<"x", "x", "x", "x">>
LineMix == <<"m", "i", "x">>
LineIix == <<"i", "i", "x">>
LinePageIndex == <<"P", "a", "g", "e", " ", "i", "n", "d", "e", "x">>
LinePageIv == <<"P", "a", "g", "e", " ", "i", "v">>
LineDashIx == <<"-", " ", "i", "x", " ", "-">>
LineTwelve == <<"1", "2">>
LineDashSeven == <<"-", " ", "7", " ", "-">>
LinePageThree == <<"P", "a", "g", "e", " ", "3">>
LineBracket == <<"[", "4", "]">>
LineParen == <<"(", "5", ")">>
LinePageOf == <<"P", "a", "g", "e", " ", "2", " ", "o", "f", " ", "9">>
LineYearDash == <<"2", "0", "2", "0", " ", "-", " ", "5">>
LineYear == <<"2", "0", "2", "4">>
LineText == <<"t", "e", "x", "t">>
LinePin == <<"p", "i", "n", " ", "4">>
Lines ==
  {LineIv, LineXxxi, LineXxxx, LineMix,
   LineIix, LinePageIndex, LinePageIv, LineDashIx,
   LineTwelve, LineDashSeven, LinePageThree, LineBracket,
   LineParen, LinePageOf, LineYearDash, LineYear,
   LineText, LinePin}

\* lines.join('\n')
RECURSIVE joinLines(_)
joinLines(ls) ==
  IF ls = <<>> THEN <<>>
  ELSE IF Len(ls) = 1 THEN ls[1]
  ELSE ls[1] \o <<"\n">> \o joinLines(Tail(ls))

PageTexts ==
  { joinLines(ls) : ls \in UNION { [1..n -> Lines] : n \in 0..MaxLines } }

\* the strings handed to romanToArabic: the numeral letters and one
\* character without a numeral value
NumeralChars == RomanLetters \cup {"n"}
Numerals == UNION { [1..n -> NumeralChars] : n \in 1..MaxNumeralLen }

\* one call of extractPageNumber
ExtractPageNumber(t) ==
  /\ returned = ""
  /\ returned' = "extractPageNumber"
  /\ pageText' = t
  /\ foundPageNumber' = extractPageNumber(t)
  /\ UNCHANGED <<numeral, arabicNum, analysedPage, analysis, tocText,
                 tocEntries>>
  /\ UNCHANGED <<compVars, routeVars>>

\* one call of romanToArabic
RomanToArabic(r) ==
  /\ returned = ""
  /\ returned' = "romanToArabic"
  /\ numeral' = r
  /\ arabicNum' = romanToArabic(r)
  /\ UNCHANGED <<pageText, foundPageNumber, analysedPage, analysis, tocText,
                 tocEntries>>
  /\ UNCHANGED <<compVars, routeVars>>

\* ------------------------------------------------------- TOC extractor
\* bound on the number of lines of a TOC text
MaxTocLines == 2

\* `line.length < 3`, `\d{1,3}`, `e.page < 500`, `e.title.length > 2`
MinLineLen == 3
PageDigits == 3
PageLimit == 500
MinTitleLen == 2

\* String.prototype.split('\n')
RECURSIVE splitLines(_)
splitLines(s) ==
  IF \A i \in 1..Len(s) : s[i] # "\n"
  THEN <<s>>
  ELSE LET i == CHOOSE k \in 1..Len(s) :
                  s[k] = "\n" /\ \A j \in 1..(k - 1) : s[j] # "\n"
       IN <<SubSeq(s, 1, i - 1)>> \o splitLines(SubSeq(s, i + 1, Len(s)))

\* String.prototype.trim
trim(s) ==
  LET keep == { i \in 1..Len(s) : ~IsSpace(s[i]) }
  IN IF keep = {} THEN <<>>
     ELSE SubSeq(s, CHOOSE i \in keep : \A j \in keep : i <= j,
                    CHOOSE i \in keep : \A j \in keep : j <= i)

\* [A-Z] under /i
Letters == { UpperCase[i] : i \in 1..Len(UpperCase) }
           \cup { LowerCase[i] : i \in 1..Len(LowerCase) }
\* [\d.] and [\s.]
SectionChars == Digits \cup {"."}
Fillers == Spaces \cup {"."}

\* FILL (\d{1,3})$ matches s after position c, FILL being a run of at least
\* minFill characters of a class: the number of digits of the page, else 0
pageTail(s, c, fill, minFill) ==
  LET n == Len(s)
      digits == { r \in 1..Min(PageDigits, n - c) :
                    /\ \A i \in (n - r + 1)..n : IsDigit(s[i])
                    /\ \A i \in (c + 1)..(n - r) : s[i] \in fill
                    /\ n - r - c >= minFill }
  IN IF digits = {} THEN 0 ELSE CHOOSE r \in digits : \A q \in digits : q <= r

\* \s+(.+?)[\s.]*(\d{1,3})$ after a first group that ends at a: the ways to
\* match, as <<a, b, c>> with the white space ending at b and the title at c
titleSplits(s, a) ==
  UNION { { <<a, b, c>> :
              c \in { d \in (b + 1)..(Len(s) - 1) :
                        pageTail(s, d, Fillers, 0) # 0 } } :
          b \in (a + 1)..runEnd(s, a + 1, Spaces) }

\* the match the backtracking finds first: the longest first group, then
\* the longest white space, then the shortest title
firstSplit(splits) ==
  LET a == CHOOSE x \in { t[1] : t \in splits } :
             \A t \in splits : t[1] <= x
      b == CHOOSE x \in { t[2] : t \in { u \in splits : u[1] = a } } :
             \A t \in { u \in splits : u[1] = a } : t[2] <= x
      c == CHOOSE x \in { t[3] : t \in { u \in splits : u[1] = a /\ u[2] = b } } :
             \A t \in { u \in splits : u[1] = a /\ u[2] = b } : x <= t[3]
  IN <<a, b, c>>

NoMatch == [matched |-> FALSE, section |-> <<>>, title |-> <<>>, page |-> 0]

\* the entry of a match with a section group
sectionEntry(s, splits) ==
  IF splits = {} THEN NoMatch
  ELSE LET m == firstSplit(splits)
           r == pageTail(s, m[3], Fillers, 0)
       IN [matched |-> TRUE,
           section |-> trim(SubSeq(s, 1, m[1])),
           title |-> trim(SubSeq(s, m[2] + 1, m[3])),
           page |-> parseInt(SubSeq(s, Len(s) - r + 1, Len(s)))]

\* /^([\d.]+)\s+(.+?)[\s.]*(\d{1,3})$/
numericSection(s) ==
  sectionEntry(s, UNION { titleSplits(s, a) :
                            a \in 1..runEnd(s, 1, SectionChars) })

\* the end of `Chapter\s+\d+:?` or `Section\s+[A-Z]:?` at the start of s,
\* 0 when s does not start so
headingEnd(s, word, label, oneChar) ==
  LET w == literalEnd(s, 1, word)
      j == skipWs(s, w)
      e == IF oneChar THEN (IF charAt(s, j) \in label THEN j ELSE j - 1)
           ELSE runEnd(s, j, label)
  IN IF w # 0 /\ j > w /\ e >= j
     THEN (IF charAt(s, e + 1) = ":" THEN e + 1 ELSE e)
     ELSE 0

\* /^(Chapter\s+\d+:?)\s+(.+?)[\s.]*(\d{1,3})$/i
chapterLine(s) ==
  LET a == headingEnd(s, <<"C", "h", "a", "p", "t", "e", "r">>, Digits, FALSE)
  IN sectionEntry(s, IF a = 0 THEN {} ELSE titleSplits(s, a))

\* /^(Section\s+[A-Z]:?)\s+(.+?)[\s.]*(\d{1,3})$/i
sectionLine(s) ==
  LET a == headingEnd(s, <<"S", "e", "c", "t", "i", "o", "n">>, Letters, TRUE)
  IN sectionEntry(s, IF a = 0 THEN {} ELSE titleSplits(s, a))

\* /^([^.]+)\.{2,}\s*(\d{1,3})$/
dottedLeader(s) ==
  LET dots == { q \in 1..Len(s) : s[q] = "." }
      a == IF dots = {} THEN Len(s)
           ELSE (CHOOSE q \in dots : \A r \in dots : q <= r) - 1
      e == runEnd(s, a + 1, {"."})
      z == runEnd(s, e + 1, Spaces)
      r == Len(s) - z
  IN IF a >= 1 /\ e >= a + 2 /\ r >= 1 /\ r <= PageDigits
        /\ \A i \in (z + 1)..Len(s) : IsDigit(s[i])
     THEN [matched |-> TRUE, section |-> <<>>,
           title |-> trim(SubSeq(s, 1, a)),
           page |-> parseInt(SubSeq(s, z + 1, Len(s)))]
     ELSE NoMatch

\* /^(.+?)\s+(\d{1,3})$/
titlePage(s) ==
  LET cs == { c \in 1..(Len(s) - 1) : pageTail(s, c, Spaces, 1) # 0 }
      c == CHOOSE x \in cs : \A y \in cs : x <= y
  IN IF cs = {} THEN NoMatch
     ELSE [matched |-> TRUE, section |-> <<>>,
           title |-> trim(SubSeq(s, 1, c)),
           page |-> parseInt(SubSeq(s, Len(s) - pageTail(s, c, Spaces, 1) + 1,
                                    Len(s)))]

\* the patterns in the declared order, applied to the trimmed line
tocPatterns(s) ==
  << numericSection(s), chapterLine(s), sectionLine(s), dottedLeader(s),
     titlePage(s) >>

\* the entry pushed for line n, given which pattern matched
pushed(ms, i, n) ==
  << [section |-> ms[i].section, title |-> ms[i].title, page |-> ms[i].page,
      line |-> n, pattern |-> i] >>

\* firstMatching with the patterns tried from the last to the first
lastMatching(ms, n) ==
  LET is == { i \in 1..Len(ms) : ms[i].matched }
  IN IF is = {} THEN <<>>
     ELSE pushed(ms, CHOOSE k \in is : \A j \in is : j <= k, n)

\* the loop over the patterns, which stops at the first match; `line` and
\* `pattern` record where the entry comes from
firstMatching(ms, n) ==
  LET is == { i \in 1..Len(ms) : ms[i].matched }
  IN IF is = {} THEN <<>>
     ELSE pushed(ms, CHOOSE k \in is : \A j \in is : k <= j, n)

\* `if (!line.trim() || line.length < 3) continue`
skipped(line) == trim(line) = <<>> \/ Len(line) < MinLineLen

\* the body of the loop over the lines: what line n pushes
lineEntry(line, n) ==
  IF skipped(line) THEN <<>> ELSE firstMatching(tocPatterns(trim(line)), n)

RECURSIVE pushEntries(_, _)
pushEntries(lines, n) ==
  IF n > Len(lines) THEN <<>>
  ELSE lineEntry(lines[n], n) \o pushEntries(lines, n + 1)

\* keepEntry without the bounds on the page
keepAnyPage(e) == Len(e.title) > MinTitleLen

\* entries.filter(e => e.page > 0 && e.page < 500 && e.title.length > 2)
keepEntry(e) == e.page > 0 /\ e.page < PageLimit /\ Len(e.title) > MinTitleLen

\* extractTOC(tocText); a null section is <<>>
extractTOC(text) ==
  SelectSeq(pushEntries(splitLines(text), 1), keepEntry)

\* the lines of the TOC texts: one line of each shape, lines that the
\* filter drops, a line without a page and a line that is skipped
\* '1.1 Grounding Requirements .......... 23'
TocGrounding ==
  << "1", ".", "1", " ", "G", "r", "o", "u", "n", "d", "i", "n", "g",
     " ", "R", "e", "q", "u", "i", "r", "e", "m", "e", "n", "t", "s",
     " ", ".", ".", ".", ".", ".", ".", ".", ".", ".", ".", " ", "2",
     "3" >>
\* 'Chapter 2: Wiring 45'
TocChapter ==
  << "C", "h", "a", "p", "t", "e", "r", " ", "2", ":", " ", "W", "i",
     "r", "i", "n", "g", " ", "4", "5" >>
\* 'Section A: Scope . . 7'
TocSection ==
  << "S", "e", "c", "t", "i", "o", "n", " ", "A", ":", " ", "S", "c",
     "o", "p", "e", " ", ".", " ", ".", " ", "7" >>
\* 'Introduction.....3'
TocLeader ==
  << "I", "n", "t", "r", "o", "d", "u", "c", "t", "i", "o", "n", ".",
     ".", ".", ".", ".", "3" >>
\* 'General Notes 12'
TocSimple ==
  << "G", "e", "n", "e", "r", "a", "l", " ", "N", "o", "t", "e", "s",
     " ", "1", "2" >>
\* '1.2 Title 1234'
TocLong ==
  << "1", ".", "2", " ", "T", "i", "t", "l", "e", " ", "1", "2", "3",
     "4" >>
\* 'Intro 501'
TocHigh ==
  << "I", "n", "t", "r", "o", " ", "5", "0", "1" >>
\* 'Appendix 0'
TocZero ==
  << "A", "p", "p", "e", "n", "d", "i", "x", " ", "0" >>
\* 'ab 5'
TocShortTitle ==
  << "a", "b", " ", "5" >>
\* 'no page here'
TocNoPage ==
  << "n", "o", " ", "p", "a", "g", "e", " ", "h", "e", "r", "e" >>
\* '  '
TocBlank ==
  << " ", " " >>
\* '  Index  88  '
TocPadded ==
  << " ", " ", "I", "n", "d", "e", "x", " ", " ", "8", "8", " ", " " >>

TocLines ==
  {TocGrounding, TocChapter, TocSection, TocLeader, TocSimple, TocLong,
   TocHigh, TocZero, TocShortTitle, TocNoPage, TocBlank, TocPadded}

TocTexts ==
  { joinLines(ls) : ls \in UNION { [1..n -> TocLines] : n \in 0..MaxTocLines } }

\* one call of extractTOC
ExtractTOC(text) ==
  /\ returned = ""
  /\ returned' = "extractTOC"
  /\ tocText' = text
  /\ tocEntries' = extractTOC(text)
  /\ UNCHANGED <<pageText, foundPageNumber, numeral, arabicNum, analysedPage,
                 analysis>>
  /\ UNCHANGED <<compVars, routeVars>>

\* ------------------------------------------------ LLM ingestion route
\* `new Array(1536)`
EmbeddingDim == 1536

\* new Array(1536).fill(0)
ZeroEmbedding == [i \in 1..EmbeddingDim |-> 0]

\* response.data[0].embedding: the vector of the embeddings service, which
\* is not the zero vector
ServiceEmbedding == [i \in 1..EmbeddingDim |-> 1]

\* generateEmbedding with nothing returned when the call fails
embeddingOrNone(text, failed) == IF failed THEN <<>> ELSE ServiceEmbedding

\* generateEmbedding(text); `failed`: the embeddings call throws
generateEmbedding(text, failed) ==
  IF failed THEN ZeroEmbedding ELSE ServiceEmbedding

\* analyzeDocumentStructure(pages).content_starts; `failed`: the chat call
\* or JSON.parse throws
structureAnalysis(llm, failed) == IF failed THEN 1 ELSE content_starts(llm)

\* the rows of the batch loop with their embeddings
embeddedPages(rows, failedPages) ==
  [i \in 1..Len(rows) |->
     [document_id |-> rows[i].document_id,
      pdf_page_number |-> rows[i].pdf_page_number,
      content |-> rows[i].content,
      is_content |-> rows[i].is_content,
      embedding |-> generateEmbedding(rows[i].content, i \in failedPages)]]

\* no external call was made
NoCalls ==
  [download |-> "none", split |-> 0, structure |-> "none",
   insertDocument |-> "none", embeddings |-> <<>>, insertPages |-> "none"]

callOutcome(failed) == IF failed THEN "failed" ELSE "ok"

LlmFailures == {"none", "download", "documents", "pages"}

\* POST of the LLM route: download and parse, split, analyse the
\* structure, insert the document row, embed the pages, insert the page
\* rows.  `fail` is the step that throws; a failing structure analysis or
\* embedding call is caught where it is made.  The insert of the sections
\* only logs its error and is left out.
ProcessPdf(texts, llm, structureFails, failedPages, fail) ==
  /\ response = "none"
  /\ LET starts == structureAnalysis(llm, structureFails)
         rows == embeddedPages(processedPages(1, texts, starts), failedPages)
         analysed == [NoCalls EXCEPT !.download = "ok", !.split = Len(texts),
                                     !.structure = callOutcome(structureFails)]
         embedded == [i \in 1..Len(texts) |-> callOutcome(i \in failedPages)]
     IN IF fail = "download"
        THEN /\ documents' = <<>>
             /\ pages' = <<>>
             /\ llmCalls' = [NoCalls EXCEPT !.download = "failed"]
             /\ response' = "error"
        ELSE IF fail = "documents"
        THEN /\ documents' = <<>>
             /\ pages' = <<>>
             /\ llmCalls' = [analysed EXCEPT !.insertDocument = "failed"]
             /\ response' = "error"
        ELSE IF fail = "pages"
        THEN /\ documents' = <<documentRow(1, starts)>>
             /\ pages' = <<>>
             /\ llmCalls' = [analysed EXCEPT !.insertDocument = "ok",
                                             !.embeddings = embedded,
                                             !.insertPages = "failed"]
             /\ response' = "error"
        ELSE /\ documents' = <<documentRow(1, starts)>>
             /\ pages' = rows
             /\ llmCalls' = [analysed EXCEPT !.insertDocument = "ok",
                                             !.embeddings = embedded,
                                             !.insertPages = "ok"]
             /\ response' = "ok"
  /\ UNCHANGED <<allDocuments, selectedDocument, selectedDocumentRef,
                 currentlyLoadedDocRef, lastSearchResults, closure, status,
                 dcSent, showTimers, showCalls, lastSearch>>
  /\ UNCHANGED <<viewVars, sessVars, pdfFile, pdfRecord, pageRecords, libVars>>

\* ------------------------------------------------ viewer (PDFViewer)
MaxViewerCalls == 3
MaxNavigations == 1

\* no timeout of the page effect is pending
NoTimer == [pageNumber |-> 0, numPages |-> 0]
\* PDFViewer is not rendered: no PDF has been shown yet
NoViewer == [url |-> 0, numPages |-> 0, currentPage |-> 1,
             documentLoaded |-> FALSE, loading |-> FALSE, loaded |-> 0,
             timer |-> NoTimer]
\* the user has not navigated in the viewer
NoNavigation == [count |-> 0, page |-> 0, displayPage |-> 0, loaded |-> 0,
                 shown |-> 0, sent |-> FALSE]

\* pdf.numPages of the file of a document: the LLM route stores one row for
\* every page it extracted
numPagesOf(id) ==
  Cardinality({ r \in 1..Len(pages) : pages[r].document_id = id })

\* cleanup and body of the effect on [pageNumber, documentLoaded]: the
\* pending timeout is cleared and a new one set when the document is loaded
\* and the requested page differs from the current one; the timeout keeps
\* the pageNumber and numPages of its render
pageEffect(documentLoaded, pageNumber, currentPage, numPages) ==
  IF documentLoaded /\ pageNumber > 0 /\ pageNumber # currentPage
  THEN [pageNumber |-> pageNumber, numPages |-> numPages]
  ELSE NoTimer

\* PDFViewer rendered with the props url and pageNumber: mounted when the
\* URL was null before; else the Document reloads when the URL changed and
\* the page effect runs again when pageNumber changed
rendered(v, oldUrl, oldPage, url, pageNumber) ==
  IF oldUrl = 0
  THEN [NoViewer EXCEPT !.url = url, !.loading = TRUE]
  ELSE [v EXCEPT
          !.url = url,
          !.loading = (v.loading \/ url # v.url),
          !.timer = IF pageNumber # oldPage
                    THEN pageEffect(v.documentLoaded, pageNumber,
                                    v.currentPage, v.numPages)
                    ELSE v.timer]

\* setTimeout(() => handleShowPage(pdf_page_number, targetDoc), 300) fires:
\* handleShowPage runs up to its first await
ShowTimerFires(i) ==
  /\ i \in 1..Len(showTimers)
  /\ showCalls' = Append(showCalls, showTimers[i])
  /\ showTimers' = SubSeq(showTimers, 1, i - 1)
                   \o SubSeq(showTimers, i + 1, Len(showTimers))
  /\ lastEvent' = event("showTimer")
  /\ UNCHANGED <<allDocuments, pages, selectedDocument, selectedDocumentRef,
                 currentlyLoadedDocRef, lastSearchResults, closure, status,
                 dcSent, lastSearch, viewVars>>
  /\ UNCHANGED <<state, localStreamRef, pcRef, dcRef, sessions, mounted,
                 autoStartTimer, stoppedThrough>>
  /\ UNCHANGED <<routeVars, libVars>>

\* handleShowPage(pageNumber, targetDocument) of the session's handlers,
\* after the storage listing and the public URL have arrived: the loaded
\* document, the URL, the selected document and the page are set, the
\* opening of the viewer is scheduled, and PDFViewer renders with the new
\* props.  The handlers hold the isPdfViewerOpen and selectedDocument of
\* the render that started the session.
HandleShowPage(i) ==
  /\ i \in 1..Len(showCalls)
  /\ LET call == showCalls[i]
         docToUse == call.targetDocument
     IN /\ currentlyLoadedDocRef' = docToUse
        /\ pdfUrl' = docToUse
        /\ IF docToUse # closure.selectedDocument
           THEN /\ selectedDocument' = docToUse
                /\ selectedDocumentRef' = docToUse
           ELSE UNCHANGED <<selectedDocument, selectedDocumentRef>>
        /\ currentPageNumber' = call.pageNumber
        /\ openTimers' = openTimers + 1
        /\ viewer' = rendered(viewer, pdfUrl, currentPageNumber, docToUse,
                              call.pageNumber)
  /\ showCalls' = SubSeq(showCalls, 1, i - 1)
                  \o SubSeq(showCalls, i + 1, Len(showCalls))
  /\ lastEvent' = event("handleShowPage")
  /\ UNCHANGED <<allDocuments, pages, lastSearchResults, closure, status,
                 dcSent, showTimers, lastSearch, isPdfViewerOpen, navigation>>
  /\ UNCHANGED <<state, localStreamRef, pcRef, dcRef, sessions, mounted,
                 autoStartTimer, stoppedThrough>>
  /\ UNCHANGED <<routeVars, libVars>>

\* the timeout of handleShowPage: `if (!isPdfViewerOpen)
\* setIsPdfViewerOpen(true)` with the handlers' isPdfViewerOpen
OpenViewer ==
  /\ openTimers > 0
  /\ openTimers' = openTimers - 1
  /\ isPdfViewerOpen' = (IF ~closure.isPdfViewerOpen THEN TRUE
                         ELSE isPdfViewerOpen)
  /\ lastEvent' = event("openViewer")
  /\ UNCHANGED <<allDocuments, pages, selectedDocument, selectedDocumentRef,
                 currentlyLoadedDocRef, lastSearchResults, closure, status,
                 dcSent, showTimers, showCalls, lastSearch, pdfUrl,
                 currentPageNumber, viewer, navigation>>
  /\ UNCHANGED <<state, localStreamRef, pcRef, dcRef, sessions, mounted,
                 autoStartTimer, stoppedThrough>>
  /\ UNCHANGED <<routeVars, libVars>>

\* onDocumentLoadSuccess: the requested page if the file has it, else 1
initialPage(pageNumber, numPages) ==
  IF pageNumber > 0 /\ pageNumber <= numPages THEN pageNumber ELSE 1

\* onDocumentLoadSuccess(pdf) for the file of the viewer's URL
OnDocumentLoadSuccess ==
  /\ pdfUrl # 0
  /\ viewer.loading
  /\ LET numPages == numPagesOf(viewer.url)
         currentPage == initialPage(currentPageNumber, numPages)
     IN viewer' = [viewer EXCEPT
                     !.numPages = numPages,
                     !.loading = FALSE,
                     !.documentLoaded = TRUE,
                     !.loaded = viewer.url,
                     !.currentPage = currentPage,
                     !.timer = IF ~viewer.documentLoaded
                               THEN pageEffect(TRUE, currentPageNumber,
                                               currentPage, numPages)
                               ELSE viewer.timer]
  /\ lastEvent' = event("onDocumentLoadSuccess")
  /\ UNCHANGED <<allDocuments, pages, selectedDocument, selectedDocumentRef,
                 currentlyLoadedDocRef, lastSearchResults, closure, status,
                 dcSent, showTimers, showCalls, lastSearch, pdfUrl,
                 currentPageNumber, isPdfViewerOpen, openTimers, navigation>>
  /\ UNCHANGED <<state, localStreamRef, pcRef, dcRef, sessions, mounted,
                 autoStartTimer, stoppedThrough>>
  /\ UNCHANGED <<routeVars, libVars>>

\* Math.min(Math.max(1, pageNumber), numPages || pageNumber)
targetPage(pageNumber, numPages) ==
  Min(Max(1, pageNumber), IF numPages # 0 THEN numPages ELSE pageNumber)

\* the timeout of the page effect: setCurrentPage(targetPage)
ExternalNavigation ==
  /\ viewer.timer # NoTimer
  /\ viewer' = [viewer EXCEPT
                  !.currentPage = targetPage(viewer.timer.pageNumber,
                                             viewer.timer.numPages),
                  !.timer = NoTimer]
  /\ lastEvent' = event("externalNavigation")
  /\ UNCHANGED <<allDocuments, pages, selectedDocument, selectedDocumentRef,
                 currentlyLoadedDocRef, lastSearchResults, closure, status,
                 dcSent, showTimers, showCalls, lastSearch, pdfUrl,
                 currentPageNumber, isPdfViewerOpen, openTimers, navigation>>
  /\ UNCHANGED <<state, localStreamRef, pcRef, dcRef, sessions, mounted,
                 autoStartTimer, stoppedThrough>>
  /\ UNCHANGED <<routeVars, libVars>>

\* `const displayPage = newPage + offset` with getPageOffset()
displayPage(newPage) == newPage + getPageOffset

\* setCurrentPage(newPage) and onPageChange(newPage), which is
\* handleUserPageChange: the page handed to the viewer, the status and,
\* with the data channel open, the message to the voice model
handleUserPageChange(newPage) ==
  /\ isPdfViewerOpen
  /\ pdfUrl # 0
  /\ navigation.count < MaxNavigations
  /\ currentPageNumber' = newPage
  /\ status' = <<"Viewing page", <<displayPage(newPage)>>>>
  /\ navigation' = [count |-> navigation.count + 1,
                    page |-> newPage,
                    displayPage |-> displayPage(newPage),
                    loaded |-> currentlyLoadedDocRef,
                    shown |-> IF viewer.loading THEN 0 ELSE viewer.loaded,
                    sent |-> (dcRef # 0 /\ sessions[dcRef].dc = "open")]
  /\ viewer' = [viewer EXCEPT
                  !.currentPage = newPage,
                  !.timer = IF newPage # currentPageNumber THEN NoTimer
                            ELSE viewer.timer]
  /\ lastEvent' = event("handleUserPageChange")
  /\ UNCHANGED <<allDocuments, pages, selectedDocument, selectedDocumentRef,
                 currentlyLoadedDocRef, lastSearchResults, closure, dcSent,
                 showTimers, showCalls, lastSearch, pdfUrl, isPdfViewerOpen,
                 openTimers>>
  /\ UNCHANGED <<state, localStreamRef, pcRef, dcRef, sessions, mounted,
                 autoStartTimer, stoppedThrough>>
  /\ UNCHANGED <<routeVars, libVars>>

\* goToPrevPage, from the button or a swipe to the right
GoToPrevPage == handleUserPageChange(Max(1, viewer.currentPage - 1))

\* goToNextPage, from the button or a swipe to the left
GoToNextPage ==
  handleUserPageChange(Min(IF viewer.numPages # 0 THEN viewer.numPages ELSE 1,
                           viewer.currentPage + 1))

\* handlePageInputChange
HandlePageInputChange(page) ==
  /\ page >= 1
  /\ page <= (IF viewer.numPages # 0 THEN viewer.numPages ELSE 1)
  /\ handleUserPageChange(page)

\* ------------------------------------------------ session (WebRTC)
MaxSessions == 2

\* a startSession run: where it is suspended and the objects it created
newSession == [at |-> "getUserMedia", stream |-> "none", pc |-> "none",
               dc |-> "none"]
connectedSession == [at |-> "done", stream |-> "live", pc |-> "open",
                     dc |-> "open"]

\* what the session handlers leave alone
searchVars == <<allDocuments, pages, selectedDocument, selectedDocumentRef,
                currentlyLoadedDocRef, lastSearchResults, closure, dcSent,
                showTimers, showCalls, lastSearch>>

\* setState: a state update of an unmounted component is dropped
setState(s) == IF mounted THEN s ELSE state

\* stopSession: the data channel, the peer connection and the stream the
\* refs hold are closed; closing a peer connection closes its data channel
closedByStop ==
  [i \in 1..Len(sessions) |->
     [sessions[i] EXCEPT
        !.dc = IF (dcRef = i \/ pcRef = i) /\ @ # "none" THEN "closed" ELSE @,
        !.pc = IF pcRef = i /\ @ # "none" THEN "closed" ELSE @,
        !.stream = IF localStreamRef = i /\ @ # "none" THEN "stopped" ELSE @]]

\* startSession up to `await navigator.mediaDevices.getUserMedia`
startSession(name) ==
  /\ IF state # "idle"
     THEN /\ lastEvent' = event(name)
          /\ UNCHANGED <<state, status, sessions>>
     ELSE /\ Len(sessions) < MaxSessions
          /\ state' = "connecting"
          /\ status' = <<"Getting microphone...", <<>>>>
          /\ sessions' = Append(sessions, newSession)
          /\ lastEvent' = [event(name) EXCEPT !.started = TRUE]
  /\ UNCHANGED <<localStreamRef, pcRef, dcRef, mounted, autoStartTimer,
                 stoppedThrough>>
  /\ UNCHANGED <<searchVars, viewVars, routeVars, libVars>>

\* the button "Start Voice Chat", rendered in state 'idle'
StartVoiceChat ==
  /\ mounted
  /\ state = "idle"
  /\ startSession("Start Voice Chat")

\* the button "Retry Connection", rendered in state 'error'
RetryConnection ==
  /\ mounted
  /\ state = "error"
  /\ startSession("Retry Connection")

\* the timeout of the autoStart effect: its `state` and its startSession
\* are those of the first render, where state is 'idle'
AutoStart ==
  /\ mounted
  /\ autoStartTimer
  /\ Len(sessions) < MaxSessions
  /\ autoStartTimer' = FALSE
  /\ state' = "connecting"
  /\ status' = <<"Getting microphone...", <<>>>>
  /\ sessions' = Append(sessions, newSession)
  /\ lastEvent' = [event("autoStart") EXCEPT !.started = TRUE]
  /\ UNCHANGED <<localStreamRef, pcRef, dcRef, mounted, stoppedThrough>>
  /\ UNCHANGED <<searchVars, viewVars, routeVars, libVars>>

\* the catch of startSession in session i: setState('error'), then
\* stopSession, whose setState('idle') is the one that lasts
sessionError(i, name) ==
  /\ sessions' = [closedByStop EXCEPT ![i].at = "failed"]
  /\ localStreamRef' = 0
  /\ pcRef' = 0
  /\ dcRef' = 0
  /\ state' = setState("idle")
  /\ status' = <<"Disconnected", <<>>>>
  /\ lastEvent' = event(name)
  /\ UNCHANGED <<mounted, autoStartTimer, stoppedThrough>>
  /\ UNCHANGED <<searchVars, viewVars, routeVars, libVars>>

\* getUserMedia answers: the stream, the peer connection and the data
\* channel are created and stored in the refs, the offer is set and the
\* wait for the ICE candidates begins; or the request is rejected
GetUserMedia(i, granted) ==
  /\ i \in 1..Len(sessions)
  /\ sessions[i].at = "getUserMedia"
  /\ IF granted
     THEN /\ sessions' = [sessions EXCEPT ![i] =
                            [at |-> "iceGathering", stream |-> "live",
                             pc |-> "open", dc |-> "connecting"]]
          /\ localStreamRef' = i
          /\ pcRef' = i
          /\ dcRef' = i
          /\ status' = <<"Connecting to GPT-4o Realtime...", <<>>>>
          /\ lastEvent' = event("getUserMedia")
          /\ UNCHANGED <<state, mounted, autoStartTimer, stoppedThrough>>
          /\ UNCHANGED <<searchVars, viewVars, routeVars, libVars>>
     ELSE sessionError(i, "getUserMedia rejected")

\* the wait for the ICE candidates ends: the offer is sent
IceGathered(i) ==
  /\ i \in 1..Len(sessions)
  /\ sessions[i].at = "iceGathering"
  /\ sessions' = [sessions EXCEPT ![i].at = "offer"]
  /\ status' = <<"Establishing connection...", <<>>>>
  /\ lastEvent' = event("iceGathering")
  /\ UNCHANGED <<state, localStreamRef, pcRef, dcRef, mounted,
                 autoStartTimer, stoppedThrough>>
  /\ UNCHANGED <<searchVars, viewVars, routeVars, libVars>>

\* the answer to the offer arrives: setRemoteDescription, which throws on
\* a closed peer connection; a response that is not ok throws as well
OfferAnswered(i, ok) ==
  /\ i \in 1..Len(sessions)
  /\ sessions[i].at = "offer"
  /\ IF ok /\ sessions[i].pc = "open"
     THEN /\ sessions' = [sessions EXCEPT ![i].at = "done"]
          /\ lastEvent' = event("setRemoteDescription")
          /\ UNCHANGED <<state, status, localStreamRef, pcRef, dcRef,
                         mounted, autoStartTimer, stoppedThrough>>
          /\ UNCHANGED <<searchVars, viewVars, routeVars, libVars>>
     ELSE sessionError(i, "offer failed")

\* dc.onopen
DcOpen(i) ==
  /\ i \in 1..Len(sessions)
  /\ sessions[i].at = "done"
  /\ sessions[i].pc = "open"
  /\ sessions[i].dc = "connecting"
  /\ sessions' = [sessions EXCEPT ![i].dc = "open"]
  /\ state' = setState("connected")
  /\ status' = <<"Connected! Ask your questions", <<>>>>
  /\ lastEvent' = event("dc.onopen")
  /\ UNCHANGED <<localStreamRef, pcRef, dcRef, mounted, autoStartTimer,
                 stoppedThrough>>
  /\ UNCHANGED <<searchVars, viewVars, routeVars, libVars>>

\* dc.onerror
DcError(i) ==
  /\ i \in 1..Len(sessions)
  /\ sessions[i].pc = "open"
  /\ sessions[i].dc = "open"
  /\ state' = setState("error")
  /\ status' = <<"Connection error", <<>>>>
  /\ lastEvent' = event("dc.onerror")
  /\ UNCHANGED <<localStreamRef, pcRef, dcRef, sessions, mounted,
                 autoStartTimer, stoppedThrough>>
  /\ UNCHANGED <<searchVars, viewVars, routeVars, libVars>>

\* stopSession, from the Stop button or the cleanup on unmount
stopSession(name) ==
  /\ sessions' = closedByStop
  /\ localStreamRef' = 0
  /\ pcRef' = 0
  /\ dcRef' = 0
  /\ state' = "idle"
  /\ status' = <<"Disconnected", <<>>>>
  /\ stoppedThrough' = Len(sessions)
  /\ lastEvent' = event(name)
  /\ UNCHANGED <<searchVars, viewVars, routeVars, libVars>>

\* the button "Stop", rendered in state 'connected'
Stop ==
  /\ mounted
  /\ state = "connected"
  /\ stopSession("Stop")
  /\ UNCHANGED <<mounted, autoStartTimer>>

\* the component unmounts: the timeout of autoStart is cleared and the
\* cleanup runs stopSession
Unmount ==
  /\ mounted
  /\ stopSession("unmount")
  /\ mounted' = FALSE
  /\ autoStartTimer' = FALSE

\* ------------------------------------------------------ specification
TextSeqs == UNION { [1..n -> Texts] : n \in 0..MaxPages }
DocInputs == [texts : TextSeqs, llm : 0..MaxCS]
Libraries == UNION { [1..n -> DocInputs] : n \in 0..MaxDocs }

RECURSIVE libraryPages(_, _)
libraryPages(lib, n) ==
  IF n > Len(lib) THEN <<>>
  ELSE processedPages(n, lib[n].texts, content_starts(lib[n].llm))
       \o libraryPages(lib, n + 1)

ViewInit ==
  /\ pdfUrl = 0
  /\ currentPageNumber = 1
  /\ isPdfViewerOpen = FALSE
  /\ openTimers = 0
  /\ viewer = NoViewer
  /\ navigation = NoNavigation

\* the mounted component before Start
SessInit ==
  /\ state = "idle"
  /\ localStreamRef = 0
  /\ pcRef = 0
  /\ dcRef = 0
  /\ sessions = <<>>
  /\ mounted = TRUE
  /\ autoStartTimer \in BOOLEAN
  /\ lastEvent = [name |-> "mount", state |-> "idle", started |-> FALSE]
  /\ stoppedThrough = 0

\* the component with its session connected, as the function calls of the
\* voice model find it
SessConnected ==
  /\ state = "connected"
  /\ localStreamRef = 1
  /\ pcRef = 1
  /\ dcRef = 1
  /\ sessions = <<connectedSession>>
  /\ mounted = TRUE
  /\ autoStartTimer = FALSE
  /\ lastEvent = [name |-> "dc.onopen", state |-> "connecting",
                  started |-> FALSE]
  /\ stoppedThrough = 0

RouteInit ==
  /\ pdfFile = <<>>
  /\ pdfRecord = NoRecord
  /\ pageRecords = <<>>
  /\ response = "none"
  /\ llmCalls = NoCalls

NoAnalysis == [type |-> "none"]

\* no library function has been called
LibInit ==
  /\ returned = ""
  /\ pageText = <<>>
  /\ foundPageNumber = NoNumber
  /\ numeral = <<>>
  /\ arabicNum = Null
  /\ analysedPage = [page |-> PEmpty, pageNumber |-> 0]
  /\ analysis = NoAnalysis
  /\ tocText = <<>>
  /\ tocEntries = <<>>

\* the component as constructed over a library that the LLM route ingested
Init ==
  /\ \E lib \in Libraries :
       /\ allDocuments = [i \in 1..Len(lib) |->
                            documentRow(i, content_starts(lib[i].llm))]
       /\ pages = libraryPages(lib, 1)
  /\ documents = allDocuments
  /\ selectedDocument = (IF Len(allDocuments) > 0 THEN allDocuments[1].id ELSE 0)
  /\ selectedDocumentRef = selectedDocument
  /\ currentlyLoadedDocRef = 0
  /\ lastSearchResults = <<>>
  /\ closure = [lastSearchResults |-> <<>>,
                selectedDocument |-> selectedDocument,
                isPdfViewerOpen |-> FALSE]
  /\ status = <<"Click Start to begin", <<>>>>
  /\ dcSent = <<>>
  /\ showTimers = <<>>
  /\ showCalls = <<>>
  /\ ViewInit
  /\ SessConnected
  /\ lastSearch = [query |-> <<>>, searchMethod |-> "", finalResults |-> <<>>,
                   found |-> 0, queries1 |-> 0, queries2 |-> 0, queries3 |-> 0,
                   partialWord |-> <<>>]
  /\ RouteInit
  /\ LibInit

Next ==
  \/ \E q \in Queries : SearchDocument(q)
  \/ \E p \in 1..MaxSpoken : ShowPage(p)

Spec == Init /\ [][Next]_vars

RawSeqs == UNION { [1..n -> RawPages] : n \in 0..MaxRawPages }

InitExtract ==
  /\ allDocuments = <<>>
  /\ pages = <<>>
  /\ selectedDocument = 0
  /\ selectedDocumentRef = 0
  /\ currentlyLoadedDocRef = 0
  /\ lastSearchResults = <<>>
  /\ closure = [lastSearchResults |-> <<>>,
                selectedDocument |-> selectedDocument,
                isPdfViewerOpen |-> FALSE]
  /\ status = <<"Click Start to begin", <<>>>>
  /\ dcSent = <<>>
  /\ showTimers = <<>>
  /\ showCalls = <<>>
  /\ ViewInit
  /\ SessConnected
  /\ lastSearch = [query |-> <<>>, searchMethod |-> "", finalResults |-> <<>>,
                   found |-> 0, queries1 |-> 0, queries2 |-> 0, queries3 |-> 0,
                   partialWord |-> <<>>]
  /\ RouteInit
  /\ LibInit
  /\ documents = <<>>

NextExtract ==
  \E raw \in RawSeqs \cup {ScenarioA} : \E fail \in Failures :
     ExtractText(raw, fail)

SpecExtract == InitExtract /\ [][NextExtract]_vars

\* the page classifier applied to one page under one physical index
MaxPageNumber == 11
AnalysedPages ==
  RawPages \cup {PContents, PShortToc, PDense, PPreface, PTie, PTitleTie}

\* one call of analyzePage
AnalyzePage(page, pageNumber) ==
  /\ returned = ""
  /\ returned' = "analyzePage"
  /\ analysedPage' = [page |-> page, pageNumber |-> pageNumber]
  /\ analysis' = analyzePage(page, pageNumber)
  /\ UNCHANGED <<pageText, foundPageNumber, numeral, arabicNum, tocText,
                 tocEntries>>
  /\ UNCHANGED <<compVars, routeVars>>

InitAnalyze == InitExtract

NextAnalyze ==
  \E page \in AnalysedPages : \E pageNumber \in 1..MaxPageNumber :
     AnalyzePage(page, pageNumber)

SpecAnalyze == InitAnalyze /\ [][NextAnalyze]_vars

\* the page number detector applied to one page text or one numeral
InitDetect == InitExtract

NextDetect ==
  \/ \E t \in PageTexts : ExtractPageNumber(t)
  \/ \E r \in Numerals : RomanToArabic(r)

SpecDetect == InitDetect /\ [][NextDetect]_vars

\* the TOC extractor applied to one TOC text
InitToc == InitExtract

NextToc == \E text \in TocTexts : ExtractTOC(text)

SpecToc == InitToc /\ [][NextToc]_vars

\* one ingestion request, to either route
InitIngest == InitExtract

NextIngest ==
  \/ \E raw \in RawSeqs \cup {ScenarioA} : \E fail \in Failures :
        ExtractText(raw, fail)
  \/ \E texts \in TextSeqs : \E llm \in 0..MaxCS :
        \E structureFails \in BOOLEAN :
          \E failedPages \in SUBSET (1..Len(texts)) :
            \E fail \in LlmFailures :
              ProcessPdf(texts, llm, structureFails, failedPages, fail)

SpecIngest == InitIngest /\ [][NextIngest]_vars

\* the voice component with the viewer: a library of a three-page document
\* whose content starts at page 2 and a one-page document
ViewerLibrary ==
  <<[texts |-> <<TextA, TextA, TextA>>, llm |-> 2],
    [texts |-> <<TextB>>, llm |-> 0]>>
ViewerQueries == {QLoad, QAmpLoad}
ViewerSpoken == {3}

InitViewer ==
  /\ allDocuments = [i \in 1..Len(ViewerLibrary) |->
                       documentRow(i, content_starts(ViewerLibrary[i].llm))]
  /\ pages = libraryPages(ViewerLibrary, 1)
  /\ documents = allDocuments
  /\ selectedDocument = allDocuments[1].id
  /\ selectedDocumentRef = selectedDocument
  /\ currentlyLoadedDocRef = 0
  /\ lastSearchResults = <<>>
  /\ closure = [lastSearchResults |-> <<>>,
                selectedDocument |-> selectedDocument,
                isPdfViewerOpen |-> FALSE]
  /\ status = <<"Connected! Ask your questions", <<>>>>
  /\ dcSent = <<>>
  /\ showTimers = <<>>
  /\ showCalls = <<>>
  /\ lastSearch = [query |-> <<>>, searchMethod |-> "", finalResults |-> <<>>,
                   found |-> 0, queries1 |-> 0, queries2 |-> 0, queries3 |-> 0,
                   partialWord |-> <<>>]
  /\ ViewInit
  /\ SessConnected
  /\ RouteInit
  /\ LibInit

\* a function call of the voice model arrives
ViewerSearch(q) ==
  /\ Len(dcSent) < MaxViewerCalls
  /\ search_document(q)

ViewerShowPage(p) ==
  /\ Len(dcSent) < MaxViewerCalls
  /\ show_page(p)

NextViewer ==
  \/ \E q \in ViewerQueries : ViewerSearch(q)
  \/ \E p \in ViewerSpoken : ViewerShowPage(p)
  \/ \E i \in 1..MaxViewerCalls : ShowTimerFires(i)
  \/ \E i \in 1..MaxViewerCalls : HandleShowPage(i)
  \/ OpenViewer
  \/ OnDocumentLoadSuccess
  \/ ExternalNavigation
  \/ GoToPrevPage
  \/ GoToNextPage
  \/ \E page \in 1..MaxPages : HandlePageInputChange(page)

SpecViewer == InitViewer /\ [][NextViewer]_vars

\* the timeouts fire, the storage answers and the file loads
ViewerFairness ==
  /\ WF_vars(\E i \in 1..MaxViewerCalls : ShowTimerFires(i))
  /\ WF_vars(\E i \in 1..MaxViewerCalls : HandleShowPage(i))
  /\ WF_vars(OpenViewer)
  /\ WF_vars(OnDocumentLoadSuccess)
  /\ WF_vars(ExternalNavigation)

SpecViewerLive == SpecViewer /\ ViewerFairness

\* the voice component from its mount on, with and without autoStart
InitSession ==
  /\ allDocuments = [i \in 1..Len(ViewerLibrary) |->
                       documentRow(i, content_starts(ViewerLibrary[i].llm))]
  /\ pages = libraryPages(ViewerLibrary, 1)
  /\ documents = allDocuments
  /\ selectedDocument = allDocuments[1].id
  /\ selectedDocumentRef = selectedDocument
  /\ currentlyLoadedDocRef = 0
  /\ lastSearchResults = <<>>
  /\ closure = [lastSearchResults |-> <<>>,
                selectedDocument |-> selectedDocument,
                isPdfViewerOpen |-> FALSE]
  /\ status = <<"Click Start to begin", <<>>>>
  /\ dcSent = <<>>
  /\ showTimers = <<>>
  /\ showCalls = <<>>
  /\ lastSearch = [query |-> <<>>, searchMethod |-> "", finalResults |-> <<>>,
                   found |-> 0, queries1 |-> 0, queries2 |-> 0, queries3 |-> 0,
                   partialWord |-> <<>>]
  /\ ViewInit
  /\ SessInit
  /\ RouteInit
  /\ LibInit

NextSession ==
  \/ StartVoiceChat
  \/ RetryConnection
  \/ AutoStart
  \/ \E i \in 1..MaxSessions : \E granted \in BOOLEAN : GetUserMedia(i, granted)
  \/ \E i \in 1..MaxSessions : IceGathered(i)
  \/ \E i \in 1..MaxSessions : \E ok \in BOOLEAN : OfferAnswered(i, ok)
  \/ \E i \in 1..MaxSessions : DcOpen(i)
  \/ \E i \in 1..MaxSessions : DcError(i)
  \/ Stop
  \/ Unmount

SpecSession == InitSession /\ [][NextSession]_vars

\* the awaited requests of startSession are answered and the data channel
\* of an established connection opens
SessionFairness ==
  /\ WF_vars(\E i \in 1..MaxSessions : \E granted \in BOOLEAN :
               GetUserMedia(i, granted))
  /\ WF_vars(\E i \in 1..MaxSessions : IceGathered(i))
  /\ WF_vars(\E i \in 1..MaxSessions : \E ok \in BOOLEAN : OfferAnswered(i, ok))
  /\ WF_vars(\E i \in 1..MaxSessions : DcOpen(i))

SpecSessionLive == SpecSession /\ SessionFairness

\* ------------------------------------------------------------ claims
\* the output of the last search_document call, when there was one
searched == \E k \in 1..Len(dcSent) : dcSent[k].name = "search_document"
lastSearchOutput ==
  dcSent[CHOOSE k \in 1..Len(dcSent) :
           /\ dcSent[k].name = "search_document"
           /\ \A j \in (k + 1)..Len(dcSent) : dcSent[j].name # "search_document"]

\* the outputs of the show_page calls that displayed a page, in order
shownOutputs == SelectSeq(dcSent, LAMBDA m : m.kind = "shown")

\* the content start of a document, 1 when it is not set
startOf(document_id) ==
  IF docById(document_id).content_starts_at_page # 0
  THEN docById(document_id).content_starts_at_page ELSE 1

\* a hit on physical page n of a document
hitOn(doc, n) ==
  withDoc([document_id |-> doc.id, pdf_page_number |-> n, content |-> <<>>],
          doc, 0, "exact")

RoundTrip(doc) ==
  /\ \A i \in 1..(MaxPages + 1) :
       dbPageNumber(doc, actualPageNum(hitOn(doc, i))) = i
  /\ \A p \in 1..(MaxSpoken + 1) :
       actualPageNum(hitOn(doc, dbPageNumber(doc, p))) = p

\* C1: for every document (content start set or not) the printed number
\* of physical page i, as presented for a search hit, is turned back into i
\* by show_page, and a printed number p turned into a physical page by
\* show_page is presented as p again; the page every show_page call asked
\* handleShowPage for is presented as the number that was spoken.
C1_PageOffsetRoundTrip ==
  /\ \A d \in 1..Len(allDocuments) : RoundTrip(allDocuments[d])
  /\ RoundTrip(documentRow(0, 0))
  /\ Len(showCalls) = Len(shownOutputs)
  /\ \A k \in 1..Len(showCalls) :
       actualPageNum(hitOn(docById(showCalls[k].targetDocument),
                           showCalls[k].pageNumber))
       = shownOutputs[k].pageNumber

\* show_page was asked for a printed page of a document whose content
\* starts after physical page 1
C1_Witness ==
  \E k \in 1..Len(showCalls) :
     /\ startOf(showCalls[k].targetDocument) > 1
     /\ showCalls[k].pageNumber # shownOutputs[k].pageNumber

\* C2: every page number presented for a hit, in the text for the voice
\* model and on the result buttons, is the hit's physical page number minus
\* (content start - 1) of the hit's own document.
C2_PresentedPageOfOwnDocument ==
  /\ searched /\ lastSearchOutput.kind = "results" =>
       \A i \in 1..Len(lastSearchOutput.entries) :
          LET e == lastSearchOutput.entries[i]
              h == lastSearch.finalResults[e.hit]
          IN e.page = h.pdf_page_number - (startOf(h.document_id) - 1)
  /\ \A k \in 1..Len(lastSearchResults) :
       displayPageNum(lastSearchResults[k])
       = lastSearchResults[k].pdf_page_number
         - (startOf(lastSearchResults[k].document_id) - 1)

\* hits of two documents with different content starts are presented, one
\* of them from a document that is not the selected one
C2_Witness ==
  /\ searched /\ lastSearchOutput.kind = "results"
  /\ \E j, k \in 1..Len(lastSearchResults) :
       /\ lastSearchResults[j].document_id # lastSearchResults[k].document_id
       /\ lastSearchResults[j].content_offset
          # lastSearchResults[k].content_offset
       /\ lastSearchResults[k].document_id # selectedDocument

\* the physical pages that carry the Arabic number 1 in the stored mapping
arabicOnes ==
  { pdfRecord.page_mapping[i].physical : i \in
      { j \in 1..Len(pdfRecord.page_mapping) :
          /\ pdfRecord.page_mapping[j].type = "arabic"
          /\ pdfRecord.page_mapping[j].printed = 1 } }

\* C3: when some page carries the Arabic number 1, the stored content start
\* is the first such page, whatever the classification of the pages and
\* wherever Roman numbering ends; for scenario A it is 5 and physical page
\* 8 is presented as page 4.
C3_ArabicOneFirst ==
  response = "ok" =>
    /\ arabicOnes # {} =>
         /\ pdfRecord.content_starts_at \in arabicOnes
         /\ \A i \in arabicOnes : pdfRecord.content_starts_at <= i
    /\ pageRecords = pageRows(pageTextsOf(ScenarioA)) =>
         /\ pdfRecord.content_starts_at = 5
         /\ pdfActualPageNum(pdfRecord, 8) = 4

\* a page classified main and a page numbered Roman "i" precede the page
\* numbered Arabic 1, which is stored as the content start
C3_Witness ==
  /\ response = "ok"
  /\ arabicOnes # {}
  /\ \E i \in 1..Len(pageRecords) :
       /\ pageRecords[i].is_main_content
       /\ pageRecords[i].page_number < pdfRecord.content_starts_at
  /\ \E i \in 1..Len(pdfRecord.page_mapping) :
       /\ pdfRecord.page_mapping[i].type = "roman"
       /\ pdfRecord.page_mapping[i].printed = -1
       /\ pdfRecord.page_mapping[i].physical < pdfRecord.content_starts_at

\* some searchable page of a candidate document contains the query
someExactPage(searchQuery) ==
  \E r \in 1..Len(pages) :
     /\ pages[r].document_id \in docIds
     /\ pages[r].is_content
     /\ includes(toLowerCase(pages[r].content), toLowerCase(searchQuery))

\* C4: when a searchable page of a candidate document contains the full
\* query, the result is labelled exact, every hit contains the full query
\* (so a document without such a page contributes nothing) and the later
\* stages query the store not at all.
C4_ExactStageWins ==
  searched /\ ~noDocuments(allDocuments) /\ someExactPage(lastSearch.query) =>
    /\ lastSearch.searchMethod = "exact"
    /\ \A k \in 1..Len(lastSearch.finalResults) :
         includes(toLowerCase(lastSearch.finalResults[k].content),
                  toLowerCase(lastSearch.query))
    /\ lastSearch.queries2 = 0
    /\ lastSearch.queries3 = 0

\* the stored row of a hit
rowOf(h) ==
  pages[CHOOSE r \in 1..Len(pages) :
          /\ pages[r].document_id = h.document_id
          /\ pages[r].pdf_page_number = h.pdf_page_number]

\* C5: every hit of the last search, whatever stage made it, is a row
\* flagged is_content, lies at or after the content start of its document,
\* and is presented with a page number of at least 1.
C5_NoFrontMatterHit ==
  /\ \A k \in 1..Len(lastSearch.finalResults) :
       LET h == lastSearch.finalResults[k]
       IN /\ rowOf(h).is_content
          /\ h.pdf_page_number >= startOf(h.document_id)
          /\ actualPageNum(h) >= 1
  /\ searched => \A i \in 1..Len(lastSearchOutput.entries) :
                    lastSearchOutput.entries[i].page >= 1
  /\ \A k \in 1..Len(lastSearchResults) :
       displayPageNum(lastSearchResults[k]) >= 1

\* a later stage returned a hit of a document one of whose front-matter
\* pages matches the same term
C5_Witness ==
  /\ lastSearch.searchMethod \in {"word-based", "partial"}
  /\ \E k \in 1..Len(lastSearch.finalResults) :
       LET h == lastSearch.finalResults[k]
       IN /\ startOf(h.document_id) > 1
          /\ \E r \in 1..Len(pages) :
               /\ pages[r].document_id = h.document_id
               /\ ~pages[r].is_content
               /\ pages[r].content = h.content

\* C6: the content start stored with a document is the index of one of the
\* document's stored pages.
C6_ContentStartWithinPages ==
  response = "ok" =>
    /\ 1 <= pdfRecord.content_starts_at
    /\ pdfRecord.content_starts_at <= Len(pageRecords)

\* the Roman-numbered and Arabic-numbered physical pages of the mapping
romanPages ==
  { pdfRecord.page_mapping[i].physical : i \in
      { j \in 1..Len(pdfRecord.page_mapping) :
          pdfRecord.page_mapping[j].type = "roman" } }
arabicPages ==
  { pdfRecord.page_mapping[i].physical : i \in
      { j \in 1..Len(pdfRecord.page_mapping) :
          pdfRecord.page_mapping[j].type = "arabic" } }

\* C7: without an Arabic 1, the content start is the first Arabic-numbered
\* page after the last Roman-numbered page L, whenever there is one.
C7_FirstArabicAfterLastRoman ==
  response = "ok" /\ arabicOnes = {} /\ romanPages # {} =>
    LET L == CHOOSE i \in romanPages : \A j \in romanPages : j <= i
        after == { i \in arabicPages : i > L }
    IN after # {} =>
         /\ pdfRecord.content_starts_at \in after
         /\ \A i \in after : pdfRecord.content_starts_at <= i

\* C8: a search over no documents is answered with the "no documents
\* available" error; a search over some documents that finds nothing is
\* answered with the no-results message that names the query, and the two
\* answers differ.
C8_NoDocumentsIsNotNoResults ==
  searched =>
    /\ Len(allDocuments) = 0 =>
         /\ lastSearchOutput.kind = "error"
         /\ lastSearchOutput.message = NoDocsMessage
    /\ Len(allDocuments) > 0 /\ lastSearch.finalResults = <<>> =>
         /\ lastSearchOutput.kind = "no-results"
         /\ lastSearchOutput.query = lastSearch.query
         /\ lastSearchOutput.ndocs = Len(allDocuments)
    /\ lastSearchOutput.kind = "error" => Len(allDocuments) = 0

\* a search over two documents found nothing in any stage
C8_Witness ==
  /\ searched
  /\ Len(allDocuments) > 1
  /\ \E r \in 1..Len(pages) : pages[r].is_content
  /\ lastSearch.queries3 > 0
  /\ lastSearchOutput.kind = "no-results"

\* C9: the hits of a non-empty result come from one stage and the label
\* names it; an empty result has the empty label; the text has the "related
\* terms" wording exactly when the stage is the word-based one.
C9_OneStageLabelled ==
  /\ lastSearch.finalResults # <<>> =>
       /\ lastSearch.searchMethod \in {"exact", "word-based", "partial"}
       /\ \A k \in 1..Len(lastSearch.finalResults) :
            lastSearch.finalResults[k].stage = lastSearch.searchMethod
  /\ lastSearch.finalResults = <<>> => lastSearch.searchMethod = ""
  /\ searched =>
       (lastSearchOutput.related <=>
          /\ lastSearch.finalResults # <<>>
          /\ \A k \in 1..Len(lastSearch.finalResults) :
               lastSearch.finalResults[k].stage = "word-based")

\* the word-based stage made the result although a document has a page
\* that the first stage could have matched on a part of the query
C9_Witness ==
  /\ searched
  /\ lastSearchOutput.related
  /\ Len(lastSearch.finalResults) > 1
  /\ lastSearch.queries2 > 0

\* the hits of one document in the final list
hitsOf(document_id) ==
  { k \in 1..Len(lastSearch.finalResults) :
      lastSearch.finalResults[k].document_id = document_id }

tokensIn(content, searchQuery) ==
  { w \in { wordsOf(searchQuery)[j] : j \in 1..Len(wordsOf(searchQuery)) } :
      includes(toLowerCase(content), toLowerCase(w)) }

\* C11: the score of every hit of the word-overlap stage is the number of
\* distinct query tokens of length > 2 that occur in the hit's page text,
\* however many of the per-token queries returned that page.
C11_ScoreCountsDistinctTokens ==
  lastSearch.searchMethod = "word-based" =>
    \A k \in 1..Len(lastSearch.finalResults) :
       lastSearch.finalResults[k].score
       = Cardinality(tokensIn(lastSearch.finalResults[k].content,
                              lastSearch.query))

\* the words of a text: its maximal runs of letters and digits
IsWordChar(c) ==
  LowerChar(c) \in { "a", "b", "c", "d", "e", "f", "g", "h", "i", "j", "k",
                     "l", "m", "n", "o", "p", "q", "r", "s", "t", "u", "v",
                     "w", "x", "y", "z" } \/ IsDigit(c)
wordsIn(t) ==
  { toLowerCase(SubSeq(t, ab[1], ab[2])) :
      ab \in { p \in (1..Len(t)) \X (1..Len(t)) :
                 /\ p[1] <= p[2]
                 /\ \A i \in p[1]..p[2] : IsWordChar(t[i])
                 /\ ~IsWordChar(charAt(t, p[1] - 1))
                 /\ ~IsWordChar(charAt(t, p[2] + 1)) } }

\* a word is a numeral, possibly written onto a leading "Page", "Pg", "P"
numeralWords(t) ==
  wordsIn(t) \cup
  UNION { { SubSeq(w, Len(q) + 1, Len(w)) :
              q \in { p \in { <<"p", "a", "g", "e">>, <<"p", "g">>, <<"p">> } :
                        /\ Len(w) > Len(p)
                        /\ SubSeq(w, 1, Len(p)) = p
                        /\ \A i \in (Len(p) + 1)..Len(w) :
                              IsRomanLetter(w[i]) } } :
          w \in wordsIn(t) }

\* C12: a Roman result of extractPageNumber is a word of the page text all
\* of whose characters are numeral letters (never part of a word that has
\* other characters); its value has at most 4 letters and its magnitude is
\* in 1..30.
C12_RomanFromNumeralTokens ==
  returned = "extractPageNumber" /\ foundPageNumber.type = "roman" =>
    /\ foundPageNumber.value \in numeralWords(pageText)
    /\ Len(foundPageNumber.value) <= 4
    /\ foundPageNumber.arabic >= 1
    /\ foundPageNumber.arabic <= 30

\* the conversion as the claim describes it: from the right, a digit is
\* subtracted when it is less than the greatest digit seen so far
RECURSIVE runningMaximumLoop(_, _, _, _)
runningMaximumLoop(r, i, result, maxValue) ==
  IF i < 1 THEN result
  ELSE IF LowerChar(r[i]) \notin DOMAIN romanNumerals THEN Null
  ELSE LET currentValue == romanNumerals[LowerChar(r[i])]
       IN runningMaximumLoop(r, i - 1,
                             IF currentValue < maxValue
                             THEN result - currentValue
                             ELSE result + currentValue,
                             Max(maxValue, currentValue))

\* C19: romanToArabic returns, for every string of numeral letters, the
\* value of the right-to-left scan that subtracts a digit less than the
\* running maximum and adds any other, and null when a character has no
\* numeral value.
C19_RunningMaximumConversion ==
  returned = "romanToArabic" =>
    arabicNum = runningMaximumLoop(numeral, Len(numeral), 0, 0)

\* C13: a page whose trimmed text has fewer than 50 characters is
\* classified blank with confidence 0 whatever its content and index; no
\* page number is taken from it and no category is scored for it.
C13_BlankShortCircuit ==
  returned = "analyzePage" /\ analysedPage.page.chars < 50 =>
    /\ analysis.type = "blank"
    /\ analysis.confidence = 0
    /\ ~analysis.isMainContent
    /\ ~analysis.hasPageNumber
    /\ analysis.actualPageNumber = 0
    /\ analysis.pageNumberType = "none"

\* a short first page that carries a page number and title signatures
\* enough for a score above the floor was analysed
C13_Witness ==
  /\ returned = "analyzePage"
  /\ analysedPage.page.chars < 50
  /\ analysedPage.pageNumber = 1
  /\ analysedPage.page.found.type # "none"
  /\ analysedPage.page.titleHits >= 1
  /\ analysis.type = "blank"

\* C18: the confidence analyzePage returns is in 0..100.
C18_ConfidenceInRange ==
  returned = "analyzePage" =>
    analysis.confidence >= 0 /\ analysis.confidence <= 100

\* the section, title and page of each entry, without the line it came from
entryFields(es) ==
  [i \in 1..Len(es) |-> [section |-> es[i].section, title |-> es[i].title,
                         page |-> es[i].page]]

\* no line-shape pattern matches the line
matchesNone(line) ==
  \A i \in 1..Len(tocPatterns(trim(line))) : ~tocPatterns(trim(line))[i].matched

\* the text without the lines that match no pattern
shapedLines(text) ==
  joinLines(SelectSeq(splitLines(text), LAMBDA l : ~matchesNone(l)))

\* C14: every entry returned by extractTOC has a page above 0 and below 500
\* and a title of at least 3 characters, and the lines that match no
\* line-shape pattern contribute nothing: the entries are those of the text
\* without these lines
C14_TocEntriesValid ==
  returned = "extractTOC" =>
    /\ \A i \in 1..Len(tocEntries) :
         /\ tocEntries[i].page > 0
         /\ tocEntries[i].page < 500
         /\ Len(tocEntries[i].title) >= 3
    /\ \A i \in 1..Len(tocEntries) :
         ~matchesNone(splitLines(tocText)[tocEntries[i].line])
    /\ entryFields(tocEntries) = entryFields(extractTOC(shapedLines(tocText)))

\* a text with a line that no pattern matches, a line whose page is out of
\* range or whose title is too short, or both, and the entries of the rest
C14_Witness ==
  /\ returned = "extractTOC"
  /\ \E n \in 1..Len(splitLines(tocText)) :
       \/ splitLines(tocText)[n] = TocNoPage
       \/ splitLines(tocText)[n] \in {TocHigh, TocZero, TocShortTitle}
  /\ Len(tocEntries) = 1
  /\ Len(splitLines(tocText)) = 2

\* C15: each line contributes at most one entry and the entries keep the
\* order of the lines; an entry is the match of the first pattern, in the
\* declared order, that matches its line; the line
\* '1.1 Grounding Requirements .......... 23' yields exactly section '1.1',
\* title 'Grounding Requirements', page 23
C15_FirstPatternWins ==
  returned = "extractTOC" =>
    LET lines == splitLines(tocText)
    IN /\ \A i, j \in 1..Len(tocEntries) :
            i < j => tocEntries[i].line < tocEntries[j].line
       /\ \A i \in 1..Len(tocEntries) :
            LET e == tocEntries[i]
                ms == tocPatterns(trim(lines[e.line]))
            IN /\ ms[e.pattern].matched
               /\ \A k \in 1..(e.pattern - 1) : ~ms[k].matched
               /\ e.section = ms[e.pattern].section
               /\ e.title = ms[e.pattern].title
               /\ e.page = ms[e.pattern].page
       /\ \A n \in 1..Len(lines) :
            lines[n] = TocGrounding =>
              \E i \in 1..Len(tocEntries) :
                 /\ tocEntries[i].line = n
                 /\ tocEntries[i].section = <<"1", ".", "1">>
                 /\ tocEntries[i].title = SubSeq(TocGrounding, 5, 26)
                 /\ tocEntries[i].page = 23

\* the scenario line followed by a line of another shape: two entries
C15_Witness ==
  /\ returned = "extractTOC"
  /\ tocText = joinLines(<<TocGrounding, TocLeader>>)
  /\ Len(tocEntries) = 2
  /\ tocEntries[2].pattern = 4

\* the stored pages classified 'main', and those that are no front matter
\* and have more than 500 characters
mainPages ==
  { pageRecords[i].page_number : i \in
      { j \in 1..Len(pageRecords) : pageRecords[j].page_type = "main" } }
substantialPages ==
  { pageRecords[i].page_number : i \in
      { j \in 1..Len(pageRecords) :
          /\ pageRecords[j].page_type \notin {"title", "toc", "preface", "blank"}
          /\ pageRecords[j].char_count > 500 } }

\* the Arabic-numbered pages after the last Roman-numbered page
afterLastRoman ==
  { i \in arabicPages : \A j \in romanPages : j < i }

\* the least page of a non-empty set of pages
firstOf(ps) == CHOOSE i \in ps : \A j \in ps : i <= j

C16_IngestionAtomic ==
  /\ response = "error" => pdfRecord = NoRecord /\ documents = <<>>
  /\ response = "ok" => pageRecords # <<>> \/ pages # <<>>

\* C17: a failing structure analysis or embedding call does not stop the
\* request: the document insert follows the analysis and the page insert
\* follows the embedding of all N pages; when the download and the inserts
\* succeed the request succeeds with N page rows in page order, the row of
\* a page whose embedding call failed holds 1536 zeros, and the document
\* row of a failed structure analysis has content start 1
C17_FailureIsolation ==
  /\ llmCalls.structure # "none" => llmCalls.insertDocument # "none"
  /\ llmCalls.insertDocument = "ok" =>
       /\ Len(llmCalls.embeddings) = llmCalls.split
       /\ llmCalls.insertPages # "none"
  /\ llmCalls.download = "ok" /\ llmCalls.insertDocument = "ok"
       /\ llmCalls.insertPages = "ok" =>
         /\ response = "ok"
         /\ Len(pages) = llmCalls.split
         /\ \A i \in 1..Len(pages) :
              /\ pages[i].pdf_page_number = i
              /\ llmCalls.embeddings[i] = "failed" =>
                   /\ Len(pages[i].embedding) = 1536
                   /\ \A k \in 1..1536 : pages[i].embedding[k] = 0
         /\ Len(documents) = 1
         /\ llmCalls.structure = "failed" =>
              documents[1].content_starts_at_page = 1

\* the structure analysis and the embedding of one of several pages failed
C17_Witness ==
  /\ response = "ok"
  /\ llmCalls.structure = "failed"
  /\ Len(pages) > 1
  /\ \E i, j \in 1..Len(pages) :
       /\ llmCalls.embeddings[i] = "failed"
       /\ llmCalls.embeddings[j] = "ok"
       /\ pages[i].embedding = ZeroEmbedding
       /\ pages[j].embedding # ZeroEmbedding

\* ---- C21, C22: the category of a page ----

\* the categories that were scored for the analysed page, in declared order
scoredCategories ==
  IF titleScored(analysedPage.page, analysedPage.pageNumber)
  THEN <<"title", "toc", "preface", "main">>
  ELSE <<"toc", "preface", "main">>

categoryScores == scoresOf(analysedPage.page, analysedPage.pageNumber)

\* the greatest score among the scored categories
topScore ==
  CHOOSE m \in { categoryScores[scoredCategories[i]] :
                   i \in 1..Len(scoredCategories) } :
    \A i \in 1..Len(scoredCategories) : categoryScores[scoredCategories[i]] <= m

\* the categories that reach the greatest score, by position in the order
topPositions ==
  { i \in 1..Len(scoredCategories) : categoryScores[scoredCategories[i]] = topScore }

\* C21: for a non-blank page, analyzePage returns the category with the
\* maximal score when that maximum is at least 30, the first of the
\* declared order title, toc, preface, main among equal maxima, with that
\* score as confidence; otherwise 'unknown' with confidence 0, except that
\* a page with index above 10 and more than 500 characters becomes 'main'
\* with confidence 40; isMainContent is true exactly when the category is
\* 'main'.
C21_CategorySelection ==
  (returned = "analyzePage" /\ analysedPage.page.chars >= 50) =>
    /\ IF topScore >= 30
       THEN /\ analysis.confidence = topScore
            /\ analysis.type \in
                 { scoredCategories[i] : i \in topPositions }
            /\ \A i \in topPositions :
                 analysis.type = scoredCategories[i]
                   => \A j \in topPositions : i <= j
       ELSE IF analysedPage.pageNumber > 10 /\ analysedPage.page.chars > 500
            THEN analysis.type = "main" /\ analysis.confidence = 40
            ELSE analysis.type = "unknown" /\ analysis.confidence = 0
    /\ analysis.isMainContent <=> analysis.type = "main"

\* several categories reach the same maximum of at least 30 and the first
\* of them was returned
C21_Witness ==
  /\ returned = "analyzePage"
  /\ analysedPage.page.chars >= 50
  /\ topScore >= 30
  /\ Cardinality(topPositions) >= 2
  /\ analysis.type = "toc"
  /\ categoryScores.main = topScore

\* C22: a page whose physical index is beyond the early-page bound
\* (index > 10) is never classified 'preface', whatever its text.
C22_PrefaceGating ==
  (returned = "analyzePage" /\ analysedPage.pageNumber > 10) =>
    analysis.type # "preface"

\* ---- C23: the stem of the partial stage ----

\* the tokens of the last query, split at single spaces
queryTokens == split(lastSearch.query)

\* the positions of the tokens of more than 2 characters
longTokens == { i \in 1..Len(queryTokens) : Len(queryTokens[i]) > 2 }

\* the first of the longest tokens of more than 2 characters
stemToken ==
  queryTokens[CHOOSE i \in longTokens :
                /\ \A j \in longTokens :
                     Len(queryTokens[j]) <= Len(queryTokens[i])
                /\ \A j \in longTokens :
                     Len(queryTokens[j]) = Len(queryTokens[i]) => i <= j]

\* the length of the stem of a token of length L
stemLength(L) == IF L <= 4 THEN L ELSE IF L - 2 > 4 THEN L - 2 ELSE 4

partialAttempted == searched /\ lastSearch.queries3 > 0

wordOverlapProduced == searched /\ lastSearch.searchMethod = "word-based"

\* the position of a hit's document in the iteration over the documents
docPosition(hit) ==
  CHOOSE i \in 1..Len(allDocuments) : allDocuments[i].id = hit.document_id

\* C24: when the word-overlap stage produced the result set, the final
\* list (across all documents, after the cut to 5) is ordered by
\* non-increasing score, and hits with equal scores keep the document
\* iteration order.
C24_WordOverlapOrder ==
  wordOverlapProduced =>
    LET final == lastSearch.finalResults
    IN \A k \in 1..Len(final) : \A j \in (k + 1)..Len(final) :
         /\ final[k].score >= final[j].score
         /\ final[k].score = final[j].score
              => docPosition(final[k]) <= docPosition(final[j])

\* a later document's hit outscores an earlier document's hit and comes
\* first, and two hits of equal score are present
C24_Witness ==
  /\ wordOverlapProduced
  /\ \E k \in 1..Len(lastSearch.finalResults) :
       \E j \in (k + 1)..Len(lastSearch.finalResults) :
         /\ docPosition(lastSearch.finalResults[k])
              > docPosition(lastSearch.finalResults[j])
         /\ lastSearch.finalResults[k].score
              > lastSearch.finalResults[j].score
  /\ \E k \in 1..Len(lastSearch.finalResults) :
       \E j \in (k + 1)..Len(lastSearch.finalResults) :
         lastSearch.finalResults[k].score = lastSearch.finalResults[j].score

\* ---- C25: stored page numbers and positions in the file ----

\* the stored row was built from the page at position n of the file
builtFrom(row, n) ==
  /\ n \in 1..Len(pdfFile)
  /\ row.char_count = pdfFile[n].chars
  /\ row.actual_page_number = analyzePage(pdfFile[n], row.page_number).actualPageNumber

\* C25: the page number stored for a page equals that page's position in
\* the PDF file, for every input PDF including PDFs that contain pages
\* with no extractable text: every page of the file has its row, and the
\* row numbered n holds the text of the file's page n.
C25_PageAlignment ==
  response = "ok" =>
    /\ Len(pageRecords) = Len(pdfFile)
    /\ \A i \in 1..Len(pageRecords) :
         builtFrom(pageRecords[i], pageRecords[i].page_number)

\* ---- C29: the viewer's current page ----

\* C29: once a PDF has been loaded in the viewer, the current page is
\* always between 1 and the page count of the loaded document, under any
\* sequence of prev/next/swipe, page input and external page requests,
\* including a requested page beyond the last page and a switch to a
\* document with fewer pages.
C29_ViewerPageBound ==
  (viewer.documentLoaded /\ ~viewer.loading) =>
    /\ viewer.currentPage >= 1
    /\ viewer.currentPage <= numPagesOf(viewer.loaded)

\* ---- C26: the page number reported while browsing ----

\* C26: whenever the user navigates in the viewer (prev/next/swipe/page
\* input), the page number shown in the status and sent to the voice model
\* equals the viewer's physical page minus (content_starts_at_page - 1) of
\* the document that is currently loaded in the viewer, in every
\* interleaving with a search that selects a different document.
C26_OffsetWhileBrowsing ==
  (navigation.count > 0 /\ navigation.loaded = navigation.shown) =>
    /\ navigation.sent
    /\ navigation.displayPage
         = navigation.page
           - (docById(navigation.loaded).content_starts_at_page - 1)

\* ---- C30: the first hit is displayed ----

\* search_document has just returned hits to call number k, after n
\* navigations of the user, and no earlier request to show a page is
\* still under way
hitsReturned(k, n) ==
  /\ lastEvent.name = "search_document"
  /\ Len(showTimers) = 1
  /\ showCalls = <<>>
  /\ Len(dcSent) = k
  /\ dcSent[k].name = "search_document"
  /\ dcSent[k].kind = "results"
  /\ navigation.count = n

\* the viewer is open on the first hit's page of the first hit's document
firstHitShown ==
  /\ isPdfViewerOpen
  /\ viewer.documentLoaded
  /\ ~viewer.loading
  /\ lastSearch.finalResults # <<>>
  /\ viewer.loaded = lastSearch.finalResults[1].document_id
  /\ viewer.currentPage = lastSearch.finalResults[1].pdf_page_number

\* C30: when search_document returns at least one hit, the viewer
\* eventually is open and shows the physical page of the first hit from the
\* first hit's document, also when another document was loaded in the
\* viewer before the search and whatever the order in which the document
\* load and the viewer's delayed page update complete (unless a later
\* function call or the user's navigation takes the viewer elsewhere).
C30_FirstHitDisplayed ==
  \A k \in 1..MaxViewerCalls : \A n \in 0..MaxNavigations :
    [](hitsReturned(k, n)
         => <>(firstHitShown \/ Len(dcSent) > k \/ navigation.count > n))

\* ---- C27, C28: the session ----

\* the objects session i created are all released
released(i) ==
  /\ sessions[i].stream # "live"
  /\ sessions[i].pc # "open"
  /\ sessions[i].dc \notin {"connecting", "open"}

\* no object of a session started before the last Stop or unmount is open
stoppedReleased ==
  \A i \in 1..Len(sessions) : i <= stoppedThrough => released(i)

\* C27: after stopSession has run (Stop button or component unmount),
\* eventually no microphone stream, peer connection or data channel
\* started by that component remains open, including when stopSession runs
\* while startSession is suspended at one of its awaits.
C27_SessionRelease == [](stoppedThrough > 0 => <>[]stoppedReleased)

\* C28: whenever the session is in state 'error', activating 'Retry
\* Connection' starts a new connection attempt, i.e. the state moves to
\* 'connecting'; and startSession never starts a second session while one
\* is connecting or connected.
C28_RetryFromError ==
  /\ (lastEvent.name = "Retry Connection" /\ lastEvent.state = "error")
       => state = "connecting"
  /\ lastEvent.started => lastEvent.state \notin {"connecting", "connected"}

====
